---- MODULE Spec2Model ----
(***************************************************************************)
(* A model of the phone agent's step controller (phone_agent/agent.py),    *)
(* its context trimming, the action parser and the action dispatcher       *)
(* (phone_agent/actions/handler.py), and the screen capture with its       *)
(* retries (phone_agent/adb/screenshot.py).                                *)
(*                                                                         *)
(* Text is a sequence of one-character strings.  The non-ASCII characters  *)
(* the sanitizer rewrites are written by name: "LDQ" and "RDQ" are the     *)
(* curly double quotes, "LSQ" and "RSQ" the curly single quotes, "FWCOLON" *)
(* and "FWCOMMA" the fullwidth colon and comma, and "CJK" is one CJK       *)
(* letter; "DQ" is the ASCII double quote, "BSL" the backslash and "NL"    *)
(* the newline, "SQ" the ASCII single quote and "BT" the backtick.         *)
(***************************************************************************)
EXTENDS Integers, Sequences, FiniteSets, TLC

(***************************************************************************)
(* Characters                                                              *)
(***************************************************************************)
WS == {" ", "NL"}
Digits == {"0", "1", "2", "3", "4", "5", "6", "7", "8", "9"}
Quotes == {"DQ", "SQ"}
NonWord == WS \cup Quotes \cup
           {"(", ")", "BSL", "<", ">", "/", "BT", "{", "}", "[", "]", ",", "=",
            ".", ":", "-", "*", "LDQ", "RDQ", "LSQ", "RSQ", "FWCOLON", "FWCOMMA"}

\* \w of the re module: letters (CJK letters too), digits and underscore
IsWord(c) == c \notin NonWord

StartsWithAt(s, i, p) ==
    /\ i >= 1
    /\ i + Len(p) - 1 <= Len(s)
    /\ \A k \in 1..Len(p) : s[i + k - 1] = p[k]

\* least j >= i with s[j] = c, or 0
IndexOfFrom(s, c, i) ==
    IF \E j \in i..Len(s) : s[j] = c
    THEN CHOOSE j \in i..Len(s) : s[j] = c /\ \A k \in i..(j - 1) : s[k] # c
    ELSE 0

\* least j >= i with s[j] not whitespace, or Len(s) + 1
SkipWS(s, i) ==
    IF \E j \in i..Len(s) : s[j] \notin WS
    THEN CHOOSE j \in i..Len(s) : s[j] \notin WS /\ \A k \in i..(j - 1) : s[k] \in WS
    ELSE Len(s) + 1

\* least j >= i with s[j] not a blank, or Len(s) + 1
SkipBlanks(s, i) ==
    IF \E j \in i..Len(s) : s[j] # " "
    THEN CHOOSE j \in i..Len(s) : s[j] # " " /\ \A k \in i..(j - 1) : s[k] = " "
    ELSE Len(s) + 1

W_do == <<"d", "o">>
W_finish == <<"f", "i", "n", "i", "s", "h">>
W_think == <<"{", "t", "h", "i", "n", "k", "}">>
W_metadata == <<"_", "m", "e", "t", "a", "d", "a", "t", "a">>
W_action == <<"a", "c", "t", "i", "o", "n">>
W_message == <<"m", "e", "s", "s", "a", "g", "e">>
W_True == <<"T", "r", "u", "e">>
W_False == <<"F", "a", "l", "s", "e">>
W_None == <<"N", "o", "n", "e">>

(***************************************************************************)
(* _extract_call_expression: the sanitizer                                 *)
(***************************************************************************)
\* re.sub(r"</?[^>]+>", " ", s): a tag is a "<", at least one character that
\* is not ">", then the first ">"
TagAt(s, k) == s[k] = "<" /\ IndexOfFrom(s, ">", k + 1) >= k + 2

\* least k >= i where a tag starts, or 0
TagFrom(s, i) ==
    IF \E k \in i..Len(s) : TagAt(s, k)
    THEN CHOOSE k \in i..Len(s) : TagAt(s, k) /\ \A m \in i..(k - 1) : ~TagAt(s, m)
    ELSE 0

\* the text from i on, each tag replaced by a blank, one tag after the other
RECURSIVE SubTags(_, _)
SubTags(s, i) ==
    LET k == TagFrom(s, i)
    IN  IF k = 0 THEN SubSeq(s, i, Len(s))
        ELSE SubSeq(s, i, k - 1) \o <<" ">> \o SubTags(s, IndexOfFrom(s, ">", k + 1) + 1)

FenceAt(s, i) == StartsWithAt(s, i, <<"BT", "BT", "BT">>)

\* least k >= i where a fence starts, or 0
FenceFrom(s, i) ==
    IF \E k \in i..Len(s) : FenceAt(s, k)
    THEN CHOOSE k \in i..Len(s) : FenceAt(s, k) /\ \A m \in i..(k - 1) : ~FenceAt(s, m)
    ELSE 0

\* a fence at k with a closing fence after it
BlockAt(s, k) == FenceAt(s, k) /\ FenceFrom(s, k + 3) > 0

\* least k >= i where a fenced block starts, or 0
BlockFrom(s, i) ==
    IF \E k \in i..Len(s) : BlockAt(s, k)
    THEN CHOOSE k \in i..Len(s) : BlockAt(s, k) /\ \A m \in i..(k - 1) : ~BlockAt(s, m)
    ELSE 0

\* re.sub of a fenced block (three backticks, lazily anything, three backticks),
\* with re.S: the text from i on, one block after the other
RECURSIVE SubFences(_, _)
SubFences(s, i) ==
    LET k == BlockFrom(s, i)
    IN  IF k = 0 THEN SubSeq(s, i, Len(s))
        ELSE SubSeq(s, i, k - 1) \o <<" ">> \o SubFences(s, FenceFrom(s, k + 3) + 3)

\* re.sub(r"^\s*\{think\}.*?\s*", " ", s, flags=re.S): the lazy .*? matches
\* nothing, so only the marker and the whitespace around it are replaced
SubThink(s) ==
    LET p == SkipWS(s, 1)
    IN  IF StartsWithAt(s, p, W_think)
        THEN <<" ">> \o SubSeq(s, SkipWS(s, p + Len(W_think)), Len(s))
        ELSE s

NormChar(c) ==
    IF c \in {"LDQ", "RDQ"} THEN "DQ"
    ELSE IF c \in {"LSQ", "RSQ"} THEN "SQ"
    ELSE IF c = "FWCOLON" THEN ":"
    ELSE IF c = "FWCOMMA" THEN ","
    ELSE c

Normalize(s) == [i \in 1..Len(s) |-> NormChar(s[i])]

\* str.strip()
Strip(s) ==
    LET a == SkipWS(s, 1)
    IN  IF a > Len(s) THEN <<>>
        ELSE LET b == CHOOSE j \in a..Len(s) :
                          s[j] \notin WS /\ \A k \in (j + 1)..Len(s) : s[k] \in WS
             IN  SubSeq(s, a, b)

Sanitize(s) == Strip(Normalize(SubThink(SubFences(SubTags(s, 1), 1))))

\* re.search(fr"\b{func_name}\s*\(", cleaned): a match at i
CallAt(s, name, i) ==
    /\ StartsWithAt(s, i, name)
    /\ (i = 1 \/ ~IsWord(s[i - 1]))
    /\ LET p == SkipWS(s, i + Len(name)) IN p <= Len(s) /\ s[p] = "("

\* m.start() of the first match, or 0
FindCall(s, name) ==
    IF \E i \in 1..Len(s) : CallAt(s, name, i)
    THEN CHOOSE i \in 1..Len(s) : CallAt(s, name, i) /\ \A k \in 1..(i - 1) : ~CallAt(s, name, k)
    ELSE 0

\* least k >= j with s[k] in chars, or 0
NextOf(s, j, chars) ==
    IF \E k \in j..Len(s) : s[k] \in chars
    THEN CHOOSE k \in j..Len(s) : s[k] \in chars /\ \A m \in j..(k - 1) : s[m] \notin chars
    ELSE 0

\* a scan that takes the backslash for an ordinary character, so that an
\* escaped quote ends the string
RECURSIVE scan_without_escape(_, _, _, _, _, _)
scan_without_escape(s, j, depth, in_str, str_ch, escape) ==
    LET k == NextOf(s, j, IF in_str THEN {str_ch} ELSE Quotes \cup {"(", ")"})
    IN  IF k = 0 THEN 0
        ELSE IF in_str THEN scan_without_escape(s, k + 1, depth, FALSE, str_ch, FALSE)
        ELSE IF s[k] \in Quotes THEN scan_without_escape(s, k + 1, depth, TRUE, s[k], escape)
        ELSE IF s[k] = "(" THEN scan_without_escape(s, k + 1, depth + 1, FALSE, str_ch, escape)
        ELSE IF depth - 1 = 0 THEN k
        ELSE scan_without_escape(s, k + 1, depth - 1, FALSE, str_ch, escape)

\* the forward scan from j: the index of the ")" that brings depth back to 0,
\* or 0.  The loop looks at every character; only a quote or a parenthesis
\* outside a string, and a backslash, the closing quote or the character
\* after a backslash inside one, change its variables, so the scan goes from
\* one such character to the next.
RECURSIVE Scan(_, _, _, _, _, _)
Scan(s, j, depth, in_str, str_ch, escape) ==
    LET k == NextOf(s, j, IF in_str THEN {"BSL", str_ch} ELSE Quotes \cup {"(", ")"})
    IN  IF j > Len(s) THEN 0
        ELSE IF in_str /\ escape THEN Scan(s, j + 1, depth, TRUE, str_ch, FALSE)
        ELSE IF k = 0 THEN 0
        ELSE IF in_str /\ s[k] = "BSL" THEN Scan(s, k + 1, depth, TRUE, str_ch, TRUE)
        ELSE IF in_str THEN Scan(s, k + 1, depth, FALSE, str_ch, FALSE)
        ELSE IF s[k] \in Quotes THEN Scan(s, k + 1, depth, TRUE, s[k], escape)
        ELSE IF s[k] = "(" THEN Scan(s, k + 1, depth + 1, FALSE, str_ch, escape)
        ELSE IF depth - 1 = 0 THEN k
        ELSE Scan(s, k + 1, depth - 1, FALSE, str_ch, escape)

\* text is [is_str, chars]; the result is [found, expr]
extract_call_expression(text, func_name) ==
    IF ~text.is_str THEN [found |-> FALSE, expr |-> <<>>]
    ELSE LET cleaned == Sanitize(text.chars)
             i == FindCall(cleaned, func_name)
             j == IF i = 0 THEN 0 ELSE Scan(cleaned, i, 0, FALSE, "", FALSE)
         IN  IF i = 0 \/ j = 0 THEN [found |-> FALSE, expr |-> <<>>]
             ELSE [found |-> TRUE, expr |-> SubSeq(cleaned, i, j)]

(***************************************************************************)
(* ast.parse(expr, mode="eval") and ast.literal_eval, for the grammar      *)
(*   call  ::= NAME "(" [arg ("," arg)* [","]] ")"                         *)
(*   arg   ::= NAME "=" value | value                                      *)
(*   value ::= STRING+ | DIGITS | "[" values "]" | "{" values "}"          *)
(*           | NAME ("." NAME | "(" args ")")*                             *)
(* The model reads this grammar only: every text it is applied to stays    *)
(* inside it or is a SyntaxError in Python too (floats, signs, tuples and  *)
(* dict displays are no input of any specification below).  A value is     *)
(* [k, v, lit, json, items]: its kind, its content, whether literal_eval   *)
(* accepts it, whether json.dumps can serialize it, and the elements of a  *)
(* list or set.                                                            *)
(***************************************************************************)
Val(k, v, lit, json, items) ==
    [k |-> k, v |-> v, lit |-> lit, json |-> json, items |-> items]
NoneVal == Val("const", W_None, TRUE, TRUE, <<>>)
StrVal(chars) == Val("str", chars, TRUE, TRUE, <<>>)

Bad == [ok |-> FALSE, pos |-> 0, val |-> NoneVal]
Good(p, val) == [ok |-> TRUE, pos |-> p, val |-> val]

IdentStart(e, p) == p <= Len(e) /\ IsWord(e[p]) /\ e[p] \notin Digits

\* the index after the run of word characters that starts at p
WordEnd(e, p) ==
    IF \E j \in p..Len(e) : ~IsWord(e[j])
    THEN CHOOSE j \in p..Len(e) : ~IsWord(e[j]) /\ \A k \in p..(j - 1) : IsWord(e[k])
    ELSE Len(e) + 1

\* the index after the run of digits that starts at p
DigitsEnd(e, p) ==
    IF \E j \in p..Len(e) : e[j] \notin Digits
    THEN CHOOSE j \in p..Len(e) : e[j] \notin Digits /\ \A k \in p..(j - 1) : e[k] \in Digits
    ELSE Len(e) + 1

Unescape(c) ==
    IF c \in Quotes \cup {"BSL"} THEN <<c>>
    ELSE IF c = "n" THEN <<"NL">>
    ELSE <<"BSL", c>>

\* the body of a quoted string from p to its closing quote q
RECURSIVE StrBody(_, _, _, _)
StrBody(e, p, q, acc) ==
    IF p > Len(e) \/ e[p] = "NL" THEN Bad
    ELSE IF e[p] = "BSL"
         THEN IF p + 1 > Len(e) THEN Bad
              ELSE StrBody(e, p + 2, q, acc \o Unescape(e[p + 1]))
    ELSE IF e[p] = q THEN Good(p + 1, StrVal(acc))
    ELSE StrBody(e, p + 1, q, acc \o <<e[p]>>)

\* adjacent string literals are concatenated
RECURSIVE StrCat(_, _, _)
StrCat(e, p, acc) ==
    LET r == StrBody(e, p + 1, e[p], <<>>)
    IN  IF ~r.ok THEN Bad
        ELSE LET n == SkipWS(e, r.pos)
                 all == acc \o r.val.v
             IN  IF n <= Len(e) /\ e[n] \in Quotes
                 THEN StrCat(e, n, all)
                 ELSE Good(r.pos, StrVal(all))

Hashable(val) == val.k \notin {"list", "set", "dict"}

Render(val) ==
    IF val.k = "str" THEN <<"SQ">> \o val.v \o <<"SQ">>
    ELSE IF val.k = "list" THEN <<"[">> \o val.v \o <<"]">>
    ELSE IF val.k = "set" THEN <<"{">> \o val.v \o <<"}">>
    ELSE val.v

RECURSIVE JoinRender(_, _)
JoinRender(items, i) ==
    IF i > Len(items) THEN <<>>
    ELSE Render(items[i]) \o (IF i < Len(items) THEN <<",">> ELSE <<>>)
         \o JoinRender(items, i + 1)

ListVal(items) ==
    Val("list", JoinRender(items, 1),
        \A i \in 1..Len(items) : items[i].lit,
        \A i \in 1..Len(items) : items[i].json,
        items)

SetVal(items) ==
    IF Len(items) = 0 THEN Val("dict", <<>>, TRUE, TRUE, <<>>)
    ELSE Val("set", JoinRender(items, 1),
             \A i \in 1..Len(items) : items[i].lit /\ Hashable(items[i]),
             FALSE, items)

NameVal(w) ==
    IF w \in {W_True, W_False, W_None} THEN Val("const", w, TRUE, TRUE, <<>>)
    ELSE Val("name", w, FALSE, FALSE, <<>>)

RECURSIVE ParseValue(_, _)
RECURSIVE ParseItems(_, _, _, _)
RECURSIVE ParseArgs(_, _, _, _, _)
RECURSIVE Postfix(_, _, _)

NoItems == [ok |-> FALSE, pos |-> 0, items |-> <<>>]

\* after the value v of a list or set: a comma, or the closing character
ItemsAfter(e, close, acc, v) ==
    LET q == IF v.ok THEN SkipWS(e, v.pos) ELSE 0
    IN  IF ~v.ok \/ q > Len(e) THEN NoItems
        ELSE IF e[q] = "," THEN ParseItems(e, q + 1, close, Append(acc, v.val))
        ELSE IF e[q] = close THEN [ok |-> TRUE, pos |-> q + 1, items |-> Append(acc, v.val)]
        ELSE NoItems

\* comma-separated values up to the closing character
ParseItems(e, p0, close, acc) ==
    LET p == SkipWS(e, p0)
    IN  IF p > Len(e) THEN NoItems
        ELSE IF e[p] = close THEN [ok |-> TRUE, pos |-> p + 1, items |-> acc]
        ELSE ItemsAfter(e, close, acc, ParseValue(e, p))

NoArgs == [ok |-> FALSE, pos |-> 0, args |-> <<>>, kws |-> <<>>]

\* after the value v of an argument, keyword key or positional (key = <<>>):
\* a comma, or the closing parenthesis
ArgsAfter(e, seenKw, args, kws, key, v) ==
    LET isKw == key # <<>>
        q == IF v.ok THEN SkipWS(e, v.pos) ELSE 0
        args2 == IF isKw THEN args ELSE Append(args, v.val)
        kws2 == IF isKw THEN Append(kws, [key |-> key, val |-> v.val]) ELSE kws
    IN  IF ~v.ok \/ q > Len(e) THEN NoArgs
        ELSE IF ~isKw /\ seenKw THEN NoArgs
        ELSE IF e[q] = "," THEN ParseArgs(e, q + 1, seenKw \/ isKw, args2, kws2)
        ELSE IF e[q] = ")" THEN [ok |-> TRUE, pos |-> q + 1, args |-> args2, kws |-> kws2]
        ELSE NoArgs

\* the arguments of a call, from the character after its "("
ParseArgs(e, p0, seenKw, args, kws) ==
    LET p == SkipWS(e, p0)
    IN  IF p > Len(e) THEN NoArgs
        ELSE IF e[p] = ")" THEN [ok |-> TRUE, pos |-> p + 1, args |-> args, kws |-> kws]
        ELSE LET ie == IF IdentStart(e, p) THEN WordEnd(e, p) ELSE 0
                 eq == IF ie = 0 THEN 0 ELSE SkipWS(e, ie)
                 isKw == /\ ie > 0
                         /\ eq <= Len(e) /\ e[eq] = "="
                         /\ ~(eq + 1 <= Len(e) /\ e[eq + 1] = "=")
             IN  ArgsAfter(e, seenKw, args, kws,
                           IF isKw THEN SubSeq(e, p, ie - 1) ELSE <<>>,
                           ParseValue(e, IF isKw THEN eq + 1 ELSE p))

\* after the arguments a of a call applied to val
CallAfter(e, val, a) ==
    IF a.ok
    THEN Postfix(e, a.pos, Val("call", val.v \o <<"(", ")">>, FALSE, FALSE, <<>>))
    ELSE Bad

\* attribute accesses and calls after a name
Postfix(e, p0, val) ==
    LET p == SkipWS(e, p0)
    IN  IF p <= Len(e) /\ e[p] = "."
        THEN LET n == SkipWS(e, p + 1)
             IN  IF IdentStart(e, n)
                 THEN Postfix(e, WordEnd(e, n),
                              Val("attr", val.v \o <<".">> \o SubSeq(e, n, WordEnd(e, n) - 1),
                                  FALSE, FALSE, <<>>))
                 ELSE Bad
        ELSE IF p <= Len(e) /\ e[p] = "("
        THEN CallAfter(e, val, ParseArgs(e, p + 1, FALSE, <<>>, <<>>))
        ELSE Good(p0, val)

\* the list or the set (or empty dict) of the items r, by its opening character
Collection(open, r) ==
    IF ~r.ok THEN Bad
    ELSE Good(r.pos, IF open = "[" THEN ListVal(r.items) ELSE SetVal(r.items))

ParseValue(e, p0) ==
    LET p == SkipWS(e, p0)
    IN  IF p > Len(e) THEN Bad
        ELSE IF e[p] \in Quotes THEN StrCat(e, p, <<>>)
        ELSE IF e[p] \in Digits
             THEN LET d == DigitsEnd(e, p)
                  IN  IF d <= Len(e) /\ (IsWord(e[d]) \/ e[d] = ".") THEN Bad
                      ELSE Good(d, Val("num", SubSeq(e, p, d - 1), TRUE, TRUE, <<>>))
        ELSE IF e[p] \in {"[", "{"}
             THEN Collection(e[p], ParseItems(e, p + 1, IF e[p] = "[" THEN "]" ELSE "}", <<>>))
        ELSE IF IdentStart(e, p)
             THEN LET ie == WordEnd(e, p)
                  IN  IF ie <= Len(e) /\ e[ie] \in Quotes THEN Bad
                      ELSE Postfix(e, ie, NameVal(SubSeq(e, p, ie - 1)))
        ELSE Bad

NoCall == [ok |-> FALSE, args |-> <<>>, kws |-> <<>>]

\* the call whose arguments a end the expression e
WholeCall(e, a) ==
    IF a.ok /\ a.pos = Len(e) + 1
    THEN [ok |-> TRUE, args |-> a.args, kws |-> a.kws]
    ELSE NoCall

\* ast.parse(expr, mode="eval") with isinstance(tree.body, ast.Call):
\* [ok, args, kws], the positional and the keyword arguments of the call
ast_parse(e) ==
    IF ~IdentStart(e, 1) THEN NoCall
    ELSE LET b == SkipBlanks(e, WordEnd(e, 1))
         IN  IF b > Len(e) \/ e[b] # "(" THEN NoCall
             ELSE WholeCall(e, ParseArgs(e, b + 1, FALSE, <<>>, <<>>))

(***************************************************************************)
(* Action records: a dict, as the sequence of its [key, val] entries in    *)
(* insertion order                                                         *)
(***************************************************************************)
DictHas(d, key) == \E i \in 1..Len(d) : d[i].key = key

DictGet(d, key) ==
    IF DictHas(d, key)
    THEN d[CHOOSE i \in 1..Len(d) : d[i].key = key].val
    ELSE NoneVal

DictSet(d, key, val) ==
    IF DictHas(d, key)
    THEN [i \in 1..Len(d) |-> IF d[i].key = key THEN [key |-> key, val |-> val] ELSE d[i]]
    ELSE Append(d, [key |-> key, val |-> val])

\* for keyword in call.keywords: action[keyword.arg] = literal_eval(keyword.value)
RECURSIVE FillKeywords(_, _, _)
FillKeywords(d, kws, i) ==
    IF i > Len(kws) THEN d
    ELSE FillKeywords(DictSet(d, kws[i].key, kws[i].val), kws, i + 1)

\* what ast.literal_eval raises on a value it does not accept: ValueError
\* for a node that is no literal, and TypeError when a set is built from an
\* element that cannot be hashed.  The elements are converted in order.
RECURSIVE LitFault(_)
LitFault(val) ==
    IF val.lit THEN "none"
    ELSE IF val.k \notin {"list", "set"} THEN "ValueError"
    ELSE LET bad(i) == ~val.items[i].lit \/ (val.k = "set" /\ ~Hashable(val.items[i]))
             first == CHOOSE i \in 1..Len(val.items) : bad(i) /\ \A k \in 1..(i - 1) : ~bad(k)
         IN  IF val.items[first].lit THEN "TypeError" ELSE LitFault(val.items[first])

\* parse_action leaves with the exception err
Failure(err) == [ok |-> FALSE, action |-> <<>>, err |-> err]

NoParse == Failure("ValueError")

\* the keyword whose literal_eval raises
FirstBad(kws) ==
    CHOOSE i \in 1..Len(kws) : ~kws[i].val.lit /\ \A k \in 1..(i - 1) : kws[k].val.lit

\* the inner try on the parsed call: action = {"_metadata": metadata}, then
\* the literal_eval of every keyword; except (SyntaxError, ValueError) raises
\* ValueError, any other exception passes
call_action(metadata, call) ==
    IF ~call.ok THEN NoParse
    ELSE IF \E i \in 1..Len(call.kws) : ~call.kws[i].val.lit
    THEN Failure(LitFault(call.kws[FirstBad(call.kws)].val))
    ELSE [ok |-> TRUE,
          action |-> FillKeywords(<<[key |-> W_metadata, val |-> StrVal(metadata)]>>,
                                  call.kws, 1),
          err |-> "none"]

\* the first of the extractions d (of do) and f (of finish) that found a
\* call; ValueError when neither did
first_call(d, f) ==
    IF d.found THEN call_action(W_do, ast_parse(d.expr))
    ELSE IF f.found THEN call_action(W_finish, ast_parse(f.expr))
    ELSE NoParse

\* except Exception as e: raise ValueError(...)
Wrapped(r) == IF r.ok THEN r ELSE NoParse

\* parse_action without its outer try: an exception that the inner except
\* does not name leaves as it is
parse_action_unwrapped(response) ==
    first_call(extract_call_expression(response, W_do),
               extract_call_expression(response, W_finish))

\* parse_action: [ok, action, err]; ok = FALSE is the exception err
parse_action(response) ==
    Wrapped(first_call(extract_call_expression(response, W_do),
                       extract_call_expression(response, W_finish)))

\* the helpers do(**kwargs) and finish(**kwargs)
finish(message) ==
    <<[key |-> W_message, val |-> message], [key |-> W_metadata, val |-> StrVal(W_finish)]>>

(***************************************************************************)
(* The context: a sequence of messages [role, text, img].  img = 0 is a    *)
(* message without an image, img > 0 the screenshot it carries.            *)
(***************************************************************************)
Msg(role, text, img) == [role |-> role, text |-> text, img |-> img]

InSeq(m, q) == \E i \in 1..Len(q) : q[i] = m

HasRole(ctx, r) == \E i \in 1..Len(ctx) : ctx[i].role = r

\* next((m for m in self._context if m.get("role") == r), ...)
FirstOfRole(ctx, r) ==
    ctx[CHOOSE i \in 1..Len(ctx) : ctx[i].role = r /\ \A k \in 1..(i - 1) : ctx[k].role # r]

Max2(a, b) == IF a >= b THEN a ELSE b

\* q[-n:] for n > 0
LastN(q, n) == IF Len(q) <= n THEN q ELSE SubSeq(q, Len(q) - n + 1, Len(q))

\* if anchor and anchor not in anchors: anchors.append(anchor)
AddAnchor(anchors, ctx, r) ==
    IF HasRole(ctx, r) /\ ~InSeq(FirstOfRole(ctx, r), anchors)
    THEN Append(anchors, FirstOfRole(ctx, r))
    ELSE anchors

\* the sign slip remaining[available_slots:] for remaining[-available_slots:]
trim_drop_front(ctx, max) ==
    IF Len(ctx) <= max + 1 THEN ctx
    ELSE LET system_msg == IF HasRole(ctx, "system") THEN FirstOfRole(ctx, "system") ELSE ctx[1]
             anchors == AddAnchor(AddAnchor(<<system_msg>>, ctx, "user"), ctx, "assistant")
             remaining == SelectSeq(ctx, LAMBDA m : ~InSeq(m, anchors))
             available_slots == Max2(max - (Len(anchors) - 1), 0)
             recent_msgs == IF available_slots > 0
                            THEN SubSeq(remaining, available_slots + 1, Len(remaining))
                            ELSE <<>>
         IN  <<system_msg>> \o Tail(anchors) \o recent_msgs

\* a window of the last max messages after the system message, no anchors
trim_no_anchors(ctx, max) ==
    IF Len(ctx) <= max + 1 THEN ctx
    ELSE LET system_msg == IF HasRole(ctx, "system") THEN FirstOfRole(ctx, "system") ELSE ctx[1]
             remaining == SelectSeq(ctx, LAMBDA m : m # system_msg)
         IN  <<system_msg>> \o (IF max > 0 THEN LastN(remaining, max) ELSE <<>>)

\* the budget taken as max_context_messages, the anchors not counted in it
trim_budget_ignores_anchors(ctx, max) ==
    IF Len(ctx) <= max + 1 THEN ctx
    ELSE LET system_msg == IF HasRole(ctx, "system") THEN FirstOfRole(ctx, "system") ELSE ctx[1]
             anchors == AddAnchor(AddAnchor(<<system_msg>>, ctx, "user"), ctx, "assistant")
             remaining == SelectSeq(ctx, LAMBDA m : ~InSeq(m, anchors))
             recent_msgs == IF max > 0 THEN LastN(remaining, max) ELSE <<>>
             others == SelectSeq(Tail(anchors), LAMBDA m : ~InSeq(m, recent_msgs))
         IN  <<system_msg>> \o others \o recent_msgs

\* PhoneAgent._trim_context, as a function of the context and of
\* agent_config.max_context_messages
trim_context(ctx, max) ==
    IF Len(ctx) <= max + 1 THEN ctx
    ELSE LET system_msg == IF HasRole(ctx, "system") THEN FirstOfRole(ctx, "system") ELSE ctx[1]
             anchors == AddAnchor(AddAnchor(<<system_msg>>, ctx, "user"), ctx, "assistant")
             remaining == SelectSeq(ctx, LAMBDA m : ~InSeq(m, anchors))
             available_slots == Max2(max - (Len(anchors) - 1), 0)
             recent_msgs == IF available_slots > 0
                            THEN LastN(remaining, available_slots)
                            ELSE <<>>
             others == SelectSeq(Tail(anchors), LAMBDA m : ~InSeq(m, recent_msgs))
         IN  <<system_msg>> \o others \o recent_msgs

(***************************************************************************)
(* ActionHandler.execute and the operation handlers.  A dispatch yields    *)
(* [raised, res, cmds]: whether it raised, its ActionResult and the device *)
(* commands and callbacks it issued, in order.  env holds what the device  *)
(* and the callbacks answer: env.confirm is the confirmation callback's    *)
(* answer, env.takeover_ok whether the takeover callback returns,          *)
(* env.launch_ok the result of launch_app and env.dev_fault the ordinal of *)
(* the device command that raises (0: none).                               *)
(***************************************************************************)
W_Launch == <<"L", "a", "u", "n", "c", "h">>
W_Tap == <<"T", "a", "p">>
W_Type == <<"T", "y", "p", "e">>
W_Type_Name == <<"T", "y", "p", "e", "_", "N", "a", "m", "e">>
W_Swipe == <<"S", "w", "i", "p", "e">>
W_Back == <<"B", "a", "c", "k">>
W_Home == <<"H", "o", "m", "e">>
W_Double_Tap == <<"D", "o", "u", "b", "l", "e", " ", "T", "a", "p">>
W_Long_Press == <<"L", "o", "n", "g", " ", "P", "r", "e", "s", "s">>
W_Wait == <<"W", "a", "i", "t">>
W_Take_over == <<"T", "a", "k", "e", "_", "o", "v", "e", "r">>
W_Note == <<"N", "o", "t", "e">>
W_Call_API == <<"C", "a", "l", "l", "_", "A", "P", "I">>
W_Interact == <<"I", "n", "t", "e", "r", "a", "c", "t">>
W_app == <<"a", "p", "p">>
W_element == <<"e", "l", "e", "m", "e", "n", "t">>
W_text == <<"t", "e", "x", "t">>
W_start == <<"s", "t", "a", "r", "t">>
W_end == <<"e", "n", "d">>
W_duration == <<"d", "u", "r", "a", "t", "i", "o", "n">>
W_seconds == <<"s", "e", "c", "o", "n", "d", "s">>

Result(success, should_finish, message) ==
    [success |-> success, should_finish |-> should_finish, message |-> message]

Out(raised, res, cmds) == [raised |-> raised, res |-> res, cmds |-> cmds]

Raised(cmds) == Out(TRUE, Result(FALSE, FALSE, NoneVal), cmds)

Text(t) == StrVal(<<t>>)

\* bool(value)
Truthy(val) ==
    IF val.k = "str" THEN val.v # <<>>
    ELSE IF val.k = "num" THEN \E i \in 1..Len(val.v) : val.v[i] # "0"
    ELSE IF val.k = "const" THEN val.v = W_True
    ELSE IF val.k \in {"list", "set"} THEN Len(val.items) > 0
    ELSE FALSE

DigitSeq == <<"0", "1", "2", "3", "4", "5", "6", "7", "8", "9">>
DigitOf(c) == (CHOOSE n \in 1..10 : DigitSeq[n] = c) - 1

RECURSIVE NumOf(_)
NumOf(chars) ==
    IF Len(chars) = 0 THEN 0
    ELSE 10 * NumOf(SubSeq(chars, 1, Len(chars) - 1)) + DigitOf(chars[Len(chars)])

\* a device command: it is issued, and raises when it is the env.dev_fault-th
Cmd(op, args) == [op |-> op, args |-> args]

CountDev(cmds) == Len(SelectSeq(cmds, LAMBDA c : c.op \notin {"confirm", "takeover", "sleep"}))

Faults(env, cmds) == env.dev_fault > 0 /\ CountDev(cmds) = env.dev_fault

\* element[0] / 1000 * screen_width needs a sequence of two numbers at least
IsNumber(val) == val.k = "num" \/ (val.k = "const" /\ val.v \in {W_True, W_False})
NumberOf(val) == IF val.k = "num" THEN NumOf(val.v) ELSE IF val.v = W_True THEN 1 ELSE 0
Convertible(element) ==
    /\ element.k = "list"
    /\ Len(element.items) >= 2
    /\ IsNumber(element.items[1]) /\ IsNumber(element.items[2])

\* The n of 0..1000 for which the double n / 1000 * d lies just below the
\* whole number n * d / 1000, so that int() gives one less.  The quotient
\* n / 1000 is rounded to a double before it is multiplied; the table is
\* that rounding for the dimensions of Screens (none for 1080 and 333).
RoundsBelow(d) ==
    IF d = 2400 THEN {205, 285, 345, 410, 565, 570, 690, 695, 815, 820}
    ELSE IF d = 100 THEN {290, 570, 580}
    ELSE {}

\* int(n / 1000 * d), for n in 0..1000
Pixel(n, d) == IF n \in RoundsBelow(d) THEN (n * d) \div 1000 - 1 ELSE (n * d) \div 1000

\* ActionHandler._convert_relative_to_absolute
convert_relative_to_absolute(element, screen_width, screen_height) ==
    << Pixel(NumberOf(element.items[1]), screen_width),
       Pixel(NumberOf(element.items[2]), screen_height) >>

handle_launch(action, env) ==
    LET app_name == DictGet(action, W_app)
        cmds == <<Cmd("launch_app", <<>>)>>
    IN  IF ~Truthy(app_name) THEN Out(FALSE, Result(FALSE, FALSE, Text("No app name specified")), <<>>)
        ELSE IF Faults(env, cmds) THEN Raised(cmds)
        ELSE IF env.launch_ok THEN Out(FALSE, Result(TRUE, FALSE, NoneVal), cmds)
        ELSE Out(FALSE, Result(FALSE, FALSE, Text("App not found")), cmds)

handle_tap(action, w, h, env) ==
    LET element == DictGet(action, W_element)
        asked == IF DictHas(action, W_message)
                 THEN <<Cmd("confirm", <<DictGet(action, W_message)>>)>>
                 ELSE <<>>
        cmds == asked \o <<Cmd("tap", convert_relative_to_absolute(element, w, h))>>
    IN  IF ~Truthy(element) THEN Out(FALSE, Result(FALSE, FALSE, Text("No element coordinates")), <<>>)
        ELSE IF ~Convertible(element) THEN Raised(<<>>)
        ELSE IF DictHas(action, W_message) /\ env.confirm = "fault" THEN Raised(asked)
        ELSE IF DictHas(action, W_message) /\ env.confirm = "reject"
             THEN Out(FALSE, Result(FALSE, TRUE, Text("User cancelled sensitive operation")), asked)
        ELSE IF Faults(env, cmds) THEN Raised(cmds)
        ELSE Out(FALSE, Result(TRUE, FALSE, NoneVal), cmds)

\* the commands of a handler that issues them one after the other: those up to
\* and including the one that raises
UpToFault(env, all) ==
    IF env.dev_fault > 0 /\ CountDev(all) >= env.dev_fault
    THEN SubSeq(all, 1, CHOOSE n \in 1..Len(all) : CountDev(SubSeq(all, 1, n)) = env.dev_fault
                                                   /\ all[n].op \notin {"confirm", "takeover", "sleep"})
    ELSE all

Sequenced(env, all, res) ==
    IF UpToFault(env, all) # all \/ Faults(env, all)
    THEN Raised(UpToFault(env, all))
    ELSE Out(FALSE, res, all)

handle_type(action, env) ==
    Sequenced(env,
              <<Cmd("detect_and_set_adb_keyboard", <<>>), Cmd("sleep", <<1000>>),
                Cmd("clear_text", <<>>), Cmd("sleep", <<1000>>),
                Cmd("type_text", <<>>), Cmd("sleep", <<1000>>),
                Cmd("restore_keyboard", <<>>), Cmd("sleep", <<1000>>)>>,
              Result(TRUE, FALSE, NoneVal))

handle_swipe(action, w, h, env) ==
    LET start == DictGet(action, W_start)
        end == DictGet(action, W_end)
    IN  IF ~Truthy(start) \/ ~Truthy(end)
        THEN Out(FALSE, Result(FALSE, FALSE, Text("Missing swipe coordinates")), <<>>)
        ELSE IF ~Convertible(start) \/ ~Convertible(end) THEN Raised(<<>>)
        ELSE Sequenced(env,
                       <<Cmd("swipe", convert_relative_to_absolute(start, w, h)
                                      \o convert_relative_to_absolute(end, w, h))>>,
                       Result(TRUE, FALSE, NoneVal))

handle_back(env) == Sequenced(env, <<Cmd("back", <<>>)>>, Result(TRUE, FALSE, NoneVal))

handle_home(env) == Sequenced(env, <<Cmd("home", <<>>)>>, Result(TRUE, FALSE, NoneVal))

handle_double_tap(action, w, h, env) ==
    LET element == DictGet(action, W_element)
    IN  IF ~Truthy(element) THEN Out(FALSE, Result(FALSE, FALSE, Text("No element coordinates")), <<>>)
        ELSE IF ~Convertible(element) THEN Raised(<<>>)
        ELSE Sequenced(env, <<Cmd("double_tap", convert_relative_to_absolute(element, w, h))>>,
                       Result(TRUE, FALSE, NoneVal))

handle_long_press(action, w, h, env) ==
    LET element == DictGet(action, W_element)
    IN  IF ~Truthy(element) THEN Out(FALSE, Result(FALSE, FALSE, Text("No element coordinates")), <<>>)
        ELSE IF ~Convertible(element) THEN Raised(<<>>)
        ELSE Sequenced(env, <<Cmd("long_press", convert_relative_to_absolute(element, w, h))>>,
                       Result(TRUE, FALSE, NoneVal))

\* duration_str.replace("seconds", "").strip(), for a str
RECURSIVE RemoveWord(_, _, _)
RemoveWord(s, w, i) ==
    IF i > Len(s) THEN <<>>
    ELSE IF StartsWithAt(s, i, w) THEN RemoveWord(s, w, i + Len(w))
    ELSE <<s[i]>> \o RemoveWord(s, w, i + 1)

W_nan == <<"n", "a", "n">>
W_inf == <<"i", "n", "f">>

\* the first three digits of a fraction, as thousandths
Thousandths(frac) == NumOf(SubSeq(frac \o <<"0", "0", "0">>, 1, 3))

\* float(t) of the stripped text t, for a sign, digits and at most one ".",
\* or nan or inf in lower case: "ok" with the duration in milliseconds,
\* "unsleepable" for a value time.sleep raises on (negative, nan, inf), "bad"
\* for the ValueError of float.  Exponents and underscores are not told apart
\* from text that float rejects.
FloatOf(t) ==
    LET signed == Len(t) > 0 /\ t[1] \in {"-", "+"}
        u == IF signed THEN Tail(t) ELSE t
        dot == IndexOfFrom(u, ".", 1)
        whole == IF dot = 0 THEN u ELSE SubSeq(u, 1, dot - 1)
        frac == IF dot = 0 THEN <<>> ELSE SubSeq(u, dot + 1, Len(u))
        numeric == /\ Len(whole) + Len(frac) > 0
                   /\ \A i \in 1..Len(whole) : whole[i] \in Digits
                   /\ \A i \in 1..Len(frac) : frac[i] \in Digits
        zero == /\ \A i \in 1..Len(whole) : whole[i] = "0"
                /\ \A i \in 1..Len(frac) : frac[i] = "0"
    IN  IF u \in {W_nan, W_inf} THEN [kind |-> "unsleepable", ms |-> 0]
        ELSE IF ~numeric THEN [kind |-> "bad", ms |-> 0]
        ELSE IF t[1] = "-" /\ ~zero THEN [kind |-> "unsleepable", ms |-> 0]
        ELSE [kind |-> "ok", ms |-> NumOf(whole) * 1000 + Thousandths(frac)]

\* ActionHandler._handle_wait: a duration that is no str has no replace
\* (AttributeError), and time.sleep is outside the try
handle_wait(action, env) ==
    LET duration_str == IF DictHas(action, W_duration)
                        THEN DictGet(action, W_duration)
                        ELSE StrVal(<<"1", " ">> \o W_seconds)
        f == FloatOf(Strip(RemoveWord(duration_str.v, W_seconds, 1)))
    IN  IF duration_str.k # "str" THEN Raised(<<>>)
        ELSE IF f.kind = "unsleepable" THEN Raised(<<>>)
        ELSE Out(FALSE, Result(TRUE, FALSE, NoneVal),
                 <<Cmd("sleep", <<IF f.kind = "ok" THEN f.ms ELSE 1000>>)>>)

handle_takeover(action, env) ==
    IF env.takeover_ok
    THEN Out(FALSE, Result(TRUE, FALSE, NoneVal), <<Cmd("takeover", <<>>)>>)
    ELSE Raised(<<Cmd("takeover", <<>>)>>)

HandlerNames == {W_Launch, W_Tap, W_Type, W_Type_Name, W_Swipe, W_Back, W_Home, W_Double_Tap,
                 W_Long_Press, W_Wait, W_Take_over, W_Note, W_Call_API, W_Interact}

\* ActionHandler._get_handler: the registry holds the name
get_handler(action_name) == action_name.k = "str" /\ action_name.v \in HandlerNames

\* handler_method(action, screen_width, screen_height)
run_handler(name, action, w, h, env) ==
    IF name = W_Launch THEN handle_launch(action, env)
    ELSE IF name = W_Tap THEN handle_tap(action, w, h, env)
    ELSE IF name \in {W_Type, W_Type_Name} THEN handle_type(action, env)
    ELSE IF name = W_Swipe THEN handle_swipe(action, w, h, env)
    ELSE IF name = W_Back THEN handle_back(env)
    ELSE IF name = W_Home THEN handle_home(env)
    ELSE IF name = W_Double_Tap THEN handle_double_tap(action, w, h, env)
    ELSE IF name = W_Long_Press THEN handle_long_press(action, w, h, env)
    ELSE IF name = W_Wait THEN handle_wait(action, env)
    ELSE IF name = W_Take_over THEN handle_takeover(action, env)
    ELSE IF name = W_Interact
         THEN Out(FALSE, Result(TRUE, FALSE, Text("User interaction required")), <<>>)
    ELSE Out(FALSE, Result(TRUE, FALSE, NoneVal), <<>>)

\* ActionHandler.execute
execute(action, w, h, env) ==
    LET action_type == DictGet(action, W_metadata)
        action_name == DictGet(action, W_action)
    IN  IF action_type = StrVal(W_finish)
        THEN Out(FALSE, Result(TRUE, TRUE, DictGet(action, W_message)), <<>>)
        ELSE IF action_type # StrVal(W_do)
        THEN Out(FALSE, Result(FALSE, TRUE, Text("Unknown action type")), <<>>)
        ELSE IF ~Hashable(action_name) THEN Raised(<<>>)
        ELSE IF ~get_handler(action_name)
        THEN Out(FALSE, Result(FALSE, FALSE, Text("Unknown action")), <<>>)
        ELSE LET o == run_handler(action_name.v, action, w, h, env)
             IN  IF o.raised
                 THEN Out(FALSE, Result(FALSE, FALSE, Text("Action failed")), o.cmds)
                 ELSE o

(***************************************************************************)
(* The collaborators of the step controller                                *)
(***************************************************************************)
\* what model_client.request returns as response.action, by name
CompletionText(name) ==
    IF name = "back" THEN <<"d", "o", "(", "a", "c", "t", "i", "o", "n", "=", "DQ", "B", "a", "c", "k", "DQ", ")">>
    ELSE IF name = "fly" THEN <<"d", "o", "(", "a", "c", "t", "i", "o", "n", "=", "DQ", "F", "l", "y", "DQ", ")">>
    ELSE IF name = "finish" THEN <<"f", "i", "n", "i", "s", "h", "(", "m", "e", "s", "s", "a", "g", "e", "=", "DQ", "o", "k", "DQ", ")">>
    ELSE IF name = "braces" THEN <<"{", "a", "c", "t", "i", "o", "n", "=", "S", "w", "i", "p", "e", "}">>
    ELSE IF name = "pay"
         THEN <<"d", "o", "(", "a", "c", "t", "i", "o", "n", "=", "DQ", "T", "a", "p", "DQ", ",", " ", "e", "l", "e", "m", "e", "n", "t", "=", "[", "5", "0", "0", ",", "5", "0", "0", "]", ",", " ", "m", "e", "s", "s", "a", "g", "e", "=", "DQ", "p", "a", "y", "DQ", ")">>
    ELSE IF name = "set" THEN <<"d", "o", "(", "a", "c", "t", "i", "o", "n", "=", "DQ", "N", "o", "t", "e", "DQ", ",", " ", "x", "=", "{", "1", "}", ")">>
    ELSE <<"f", "i", "n", "i", "s", "h", "(", "m", "e", "s", "s", "a", "g", "e", "=", "5", ")">>

Completions == {"back", "fly", "finish", "braces", "pay", "set", "five"}

ResponseAction(name) == [is_str |-> TRUE, chars |-> CompletionText(name)]

\* parse_action of each completion
Parsed == [name \in Completions |-> parse_action(ResponseAction(name))]

\* MessageBuilder.create_system_message, create_user_message,
\* create_assistant_message and remove_images_from_message
create_system_message == Msg("system", <<"system_prompt">>, 0)
create_user_message(text, image) == Msg("user", text, image)
create_assistant_message(text) == Msg("assistant", text, 0)
remove_images_from_message(m) == [m EXCEPT !.img = 0]

\* get_screenshot: the screen of the device
ScreenWidth == 1080
ScreenHeight == 2400

(***************************************************************************)
(* Bounds                                                                  *)
(***************************************************************************)
\* agent_config.max_context_messages is drawn from 0..MaxCtx
MaxCtx == 3
\* agent_config.max_steps is drawn from -1..MaxStepsCfg
MaxStepsCfg == 2
\* no step starts once step_count has reached StepBound
StepBound == 3

(***************************************************************************)
(* PhoneAgent                                                              *)
(***************************************************************************)
VARIABLES
    cfg,         \* agent_config: [max_steps, max_context_messages, verbose]
    context,     \* self._context
    step_count,  \* self._step_count
    pc,          \* where the caller or the running step stands
    mode,        \* the entry point in progress: "run" or "step"
    is_first,    \* the is_first argument of the step in progress
    response,    \* the first completion of the step ("none", "fault" or its name)
    retry,       \* the retry completion of the step ("none", "fault" or its name)
    action,      \* the resolved action record
    dispatch,    \* what execute returned in this step, with the commands issued
    result,      \* the StepResult of the last step
    nreq,        \* the model requests made in this step
    sent,        \* the context handed to the last model request
    outcome,     \* how the last entry point ended
    ret,         \* what run returned
    pin,         \* the argument of the function under study
    pout         \* its results

agentVars == <<cfg, context, step_count, pc, mode, is_first, response, retry, action,
               dispatch, result, nreq, sent, outcome, ret>>
vars == <<cfg, context, step_count, pc, mode, is_first, response, retry, action,
          dispatch, result, nreq, sent, outcome, ret, pin, pout>>

NoAction == <<>>
NoDispatch == [called |-> FALSE, raised |-> FALSE,
               res |-> Result(FALSE, FALSE, NoneVal), cmds |-> <<>>]
StepResult(success, finished, has_action, act, message) ==
    [valid |-> TRUE, success |-> success, finished |-> finished,
     has_action |-> has_action, action |-> act, message |-> message]
NoResult == [valid |-> FALSE, success |-> FALSE, finished |-> FALSE,
             has_action |-> FALSE, action |-> NoAction, message |-> NoneVal]

Configs == [max_steps : -1..MaxStepsCfg, max_context_messages : 0..MaxCtx, verbose : BOOLEAN]

\* the answers of the device and of the callbacks to one dispatch
Envs == [confirm : {"accept", "reject", "fault"}, dev_fault : {0, 1},
         launch_ok : {TRUE}, takeover_ok : {TRUE}]

\* PhoneAgent.__init__
AgentInit(c) ==
    /\ cfg = c
    /\ context = <<>>
    /\ step_count = 0
    /\ pc = "idle"
    /\ mode = "none"
    /\ is_first = FALSE
    /\ response = "none"
    /\ retry = "none"
    /\ action = NoAction
    /\ dispatch = NoDispatch
    /\ result = NoResult
    /\ nreq = 0
    /\ sent = <<>>
    /\ outcome = "none"
    /\ ret = NoneVal

Init ==
    /\ \E c \in Configs : AgentInit(c)
    /\ pin = [kind |-> "none"]
    /\ pout = <<>>

\* the start of _execute_step: the temporaries of the step
BeginStep(first) ==
    /\ pc' = "observe"
    /\ is_first' = first
    /\ response' = "none"
    /\ retry' = "none"
    /\ action' = NoAction
    /\ dispatch' = NoDispatch
    /\ result' = NoResult
    /\ nreq' = 0
    /\ sent' = <<>>

\* PhoneAgent.run, to its call of _execute_step(task, is_first=True)
CallRun ==
    /\ pc = "idle"
    /\ context' = <<>>
    /\ step_count' = 0
    /\ mode' = "run"
    /\ outcome' = "running"
    /\ ret' = NoneVal
    /\ BeginStep(TRUE)
    /\ UNCHANGED <<cfg, pin, pout>>

\* a step that takes itself for the first one whenever a task is given
CallStepFirstWhenTask ==
    /\ pc = "idle"
    /\ step_count < StepBound
    /\ \E task_given \in BOOLEAN :
          IF Len(context) = 0 /\ ~task_given
          THEN /\ outcome' = "step_raised"
               /\ mode' = "none"
               /\ UNCHANGED <<pc, is_first, response, retry, action, dispatch, result, nreq, sent>>
          ELSE /\ outcome' = "running"
               /\ mode' = "step"
               /\ BeginStep(task_given)
    /\ ret' = NoneVal
    /\ UNCHANGED <<cfg, context, step_count, pin, pout>>

\* PhoneAgent.step(task)
CallStep ==
    /\ pc = "idle"
    /\ step_count < StepBound
    /\ \E task_given \in BOOLEAN :
          IF Len(context) = 0 /\ ~task_given
          THEN /\ outcome' = "step_raised"
               /\ mode' = "none"
               /\ UNCHANGED <<pc, is_first, response, retry, action, dispatch, result, nreq, sent>>
          ELSE /\ outcome' = "running"
               /\ mode' = "step"
               /\ BeginStep(Len(context) = 0)
    /\ ret' = NoneVal
    /\ UNCHANGED <<cfg, context, step_count, pin, pout>>

\* PhoneAgent.reset
CallReset ==
    /\ pc = "idle"
    /\ context' = <<>>
    /\ step_count' = 0
    /\ mode' = "none"
    /\ outcome' = "reset_returned"
    /\ ret' = NoneVal
    /\ UNCHANGED <<cfg, pc, is_first, response, retry, action, dispatch, result,
                   nreq, sent, pin, pout>>

\* _execute_step: count the step, capture the screen, append the messages
Observe ==
    /\ pc = "observe"
    /\ step_count' = step_count + 1
    /\ context' = IF is_first
                  THEN context \o <<create_system_message,
                                    create_user_message(<<"task", "app">>, 1)>>
                  ELSE Append(context, create_user_message(<<"screen", "app">>, 1))
    /\ pc' = "request"
    /\ UNCHANGED <<cfg, mode, is_first, response, retry, action, dispatch, result, nreq,
                   sent, outcome, ret, pin, pout>>

\* how an entry point ends when _execute_step returns r or raises
Leave(r, raises) ==
    /\ result' = r
    /\ IF raises
       THEN /\ pc' = "idle"
            /\ outcome' = IF mode = "run" THEN "run_raised" ELSE "step_raised"
       ELSE IF mode = "run"
       THEN /\ pc' = "loop"
            /\ UNCHANGED outcome
       ELSE /\ pc' = "idle"
            /\ outcome' = "step_returned"

\* a first request whose fault is answered with the corrective retry
RequestRetriesFault ==
    /\ pc = "request"
    /\ context' = trim_context(context, cfg.max_context_messages)
    /\ sent' = context'
    /\ nreq' = nreq + 1
    /\ \/ /\ response' = "fault"
          /\ pc' = "retry"
       \/ /\ response' \in Completions
          /\ pc' = "parse"
    /\ UNCHANGED <<cfg, step_count, mode, is_first, retry, action, dispatch, result, outcome,
                   ret, pin, pout>>

\* _execute_step: trim, then the first model request
Request ==
    /\ pc = "request"
    /\ context' = trim_context(context, cfg.max_context_messages)
    /\ sent' = context'
    /\ nreq' = nreq + 1
    /\ \/ /\ response' = "fault"
          /\ Leave(StepResult(FALSE, TRUE, FALSE, NoAction, Text("Model error")), FALSE)
       \/ /\ response' \in Completions
          /\ pc' = "parse"
          /\ UNCHANGED <<result, outcome>>
    /\ UNCHANGED <<cfg, step_count, mode, is_first, retry, action, dispatch, ret, pin, pout>>

\* _execute_step: parse_action(response.action)
Parse ==
    /\ pc = "parse"
    /\ IF Parsed[response].ok
       THEN /\ action' = Parsed[response].action
            /\ pc' = "dispatch"
       ELSE /\ pc' = "retry"
            /\ UNCHANGED action
    /\ UNCHANGED <<cfg, context, step_count, mode, is_first, response, retry, dispatch,
                   result, nreq, sent, outcome, ret, pin, pout>>

\* a retry that asks again for as long as the completion does not parse
RetryUntilParsed ==
    /\ pc = "retry"
    /\ context' = trim_context(Append(context, create_user_message(<<"retry_prompt">>, 0)),
                               cfg.max_context_messages)
    /\ sent' = context'
    /\ nreq' = nreq + 1
    /\ \/ /\ retry' = "fault"
          /\ action' = finish(StrVal(CompletionText(response)))
          /\ pc' = "dispatch"
       \/ /\ retry' \in Completions
          /\ IF Parsed[retry'].ok
             THEN /\ action' = Parsed[retry'].action
                  /\ pc' = "dispatch"
             ELSE /\ pc' = "retry"
                  /\ UNCHANGED action
    /\ UNCHANGED <<cfg, step_count, mode, is_first, response, dispatch, result, outcome,
                   ret, pin, pout>>

\* PhoneAgent._retry_action_request
RetryActionRequest ==
    /\ pc = "retry"
    /\ context' = trim_context(Append(context, create_user_message(<<"retry_prompt">>, 0)),
                               cfg.max_context_messages)
    /\ sent' = context'
    /\ nreq' = nreq + 1
    /\ \/ /\ retry' = "fault"
          /\ action' = finish(StrVal(CompletionText(response)))
       \/ /\ retry' \in Completions
          /\ action' = IF Parsed[retry'].ok
                       THEN Parsed[retry'].action
                       ELSE finish(StrVal(CompletionText(retry')))
    /\ pc' = "dispatch"
    /\ UNCHANGED <<cfg, step_count, mode, is_first, response, dispatch, result, outcome,
                   ret, pin, pout>>

Jsonable(act) == \A i \in 1..Len(act) : act[i].val.json

\* self.action_handler.execute(action, ...), with the fallback of the except
dispatch_action(act, env) ==
    LET o == execute(act, ScreenWidth, ScreenHeight, env)
    IN  IF o.raised
        THEN [called |-> TRUE, raised |-> TRUE,
              res |-> execute(finish(Text("exception")), ScreenWidth, ScreenHeight, env).res,
              cmds |-> o.cmds]
        ELSE [called |-> TRUE, raised |-> FALSE, res |-> o.res, cmds |-> o.cmds]

\* finished taken from the tag of the action alone
step_finished_by_tag(act, res) == DictGet(act, W_metadata) = StrVal(W_finish)

\* finished = action.get("_metadata") == "finish" or result.should_finish
step_finished(act, res) == DictGet(act, W_metadata) = StrVal(W_finish) \/ res.should_finish

\* _execute_step from the printing of the action to its return
Dispatch ==
    /\ pc = "dispatch"
    /\ IF cfg.verbose /\ ~Jsonable(action)
       THEN /\ Leave(NoResult, TRUE)
            /\ UNCHANGED <<context, dispatch>>
       ELSE \E env \in Envs :
              LET d == dispatch_action(action, env)
              IN  /\ dispatch' = d
                  /\ context' = Append([context EXCEPT ![Len(context)] =
                                            remove_images_from_message(@)],
                                       create_assistant_message(<<"answer", response>>))
                  /\ Leave(StepResult(d.res.success, step_finished(action, d.res), TRUE, action,
                                      IF Truthy(d.res.message) THEN d.res.message
                                      ELSE DictGet(action, W_message)),
                           FALSE)
    /\ UNCHANGED <<cfg, step_count, mode, is_first, response, retry, action, nreq, sent,
                   ret, pin, pout>>

\* a loop that tests step_count <= max_steps and so runs one step too many
LoopOffByOne ==
    /\ pc = "loop"
    /\ IF result.finished
       THEN /\ ret' = IF Truthy(result.message) THEN result.message ELSE Text("Task completed")
            /\ outcome' = "run_returned"
            /\ pc' = "idle"
            /\ UNCHANGED <<is_first, response, retry, action, dispatch, result, nreq, sent>>
       ELSE IF step_count <= cfg.max_steps \/ cfg.max_steps <= 0
       THEN /\ step_count < StepBound
            /\ BeginStep(FALSE)
            /\ UNCHANGED <<ret, outcome>>
       ELSE /\ ret' = Text("Max steps reached")
            /\ outcome' = "run_returned"
            /\ pc' = "idle"
            /\ UNCHANGED <<is_first, response, retry, action, dispatch, result, nreq, sent>>
    /\ UNCHANGED <<cfg, context, step_count, mode, pin, pout>>

\* PhoneAgent.run after a step: return, or the while loop
Loop ==
    /\ pc = "loop"
    /\ IF result.finished
       THEN /\ ret' = IF Truthy(result.message) THEN result.message ELSE Text("Task completed")
            /\ outcome' = "run_returned"
            /\ pc' = "idle"
            /\ UNCHANGED <<is_first, response, retry, action, dispatch, result, nreq, sent>>
       ELSE IF step_count < cfg.max_steps \/ cfg.max_steps <= 0
       THEN /\ step_count < StepBound
            /\ BeginStep(FALSE)
            /\ UNCHANGED <<ret, outcome>>
       ELSE /\ ret' = Text("Max steps reached")
            /\ outcome' = "run_returned"
            /\ pc' = "idle"
            /\ UNCHANGED <<is_first, response, retry, action, dispatch, result, nreq, sent>>
    /\ UNCHANGED <<cfg, context, step_count, mode, pin, pout>>

Next ==
    \/ CallRun
    \/ CallStep
    \/ CallReset
    \/ Observe
    \/ Request
    \/ Parse
    \/ RetryActionRequest
    \/ Dispatch
    \/ Loop

Spec == Init /\ [][Next]_vars

(***************************************************************************)
(* _trim_context as a function: any context of at most MaxTrimLen messages *)
(* and any max_context_messages in 0..MaxTrimCtx                           *)
(***************************************************************************)
MaxTrimLen == 5
MaxTrimCtx == 3

TrimMsgs == {Msg("system", <<"system_prompt">>, 0)}
            \cup {Msg(r, <<t>>, 0) : r \in {"user", "assistant"}, t \in {"x", "y"}}

TrimInputs == [kind : {"trim"}, ctx : UNION {[1..n -> TrimMsgs] : n \in 0..MaxTrimLen},
               max : 0..MaxTrimCtx]

FixedConfig == [max_steps |-> 1, max_context_messages |-> 2, verbose |-> TRUE]

TrimInit ==
    /\ AgentInit(FixedConfig)
    /\ pin \in TrimInputs
    /\ pout = <<>>

\* self._trim_context() on the context pin.ctx
TrimOnce ==
    /\ pin.kind = "trim"
    /\ pout = <<>>
    /\ pout' = <<trim_context(pin.ctx, pin.max)>>
    /\ UNCHANGED <<agentVars, pin>>

\* self._trim_context() again, on what the first call left
TrimAgain ==
    /\ pin.kind = "trim"
    /\ Len(pout) = 1
    /\ pout' = Append(pout, trim_context(pout[1], pin.max))
    /\ UNCHANGED <<agentVars, pin>>

TrimNext == TrimOnce \/ TrimAgain

SpecTrim == TrimInit /\ [][TrimNext]_vars

\* the agent, or _trim_context on any context
AnchorsNext == (pin.kind = "none" /\ Next) \/ TrimNext

SpecAnchors == (Init \/ TrimInit) /\ [][AnchorsNext]_vars

(***************************************************************************)
(* parse_action as a function: one call, do or finish, of at most MaxArgs  *)
(* arguments drawn from ArgPool, between a prefix and a suffix.  An        *)
(* argument is [key, src, kind, val]: its keyword (empty when positional), *)
(* its source text, the kind of expression it is and, for a string, the    *)
(* content written between its quotes.                                     *)
(***************************************************************************)
MaxArgs == 2

Arg(key, src, kind, val) == [key |-> key, src |-> src, kind |-> kind, val |-> val]
Quoted(chars) == <<"DQ">> \o chars \o <<"DQ">>
StrArg(key, chars) == Arg(key, Quoted(chars), "str", chars)

ArgPool ==
    { StrArg(W_action, W_Back),
      StrArg(W_message, <<"o", "k">>),
      StrArg(W_text, <<"(", "o", "k", ")">>),
      StrArg(W_text, <<"a", "<", "c", ">", "d">>),
      StrArg(W_text, <<"x", "BT", "y">>),
      StrArg(W_text, <<"a", "FWCOMMA", "c">>),
      StrArg(W_text, <<"LDQ", "a", "RDQ">>),
      Arg(W_element, <<"[", "5", "0", "0", ",", " ", "5", "0", "0", "]">>, "list", <<>>),
      Arg(W_action, W_Tap, "name", <<>>),
      Arg(W_app, <<"o", "s", ".", "s", "y", "s", "t", "e", "m">>, "attr", <<>>),
      Arg(W_text, <<"f", "o", "o", "(", ")">>, "call", <<>>),
      Arg(<<>>, W_Tap, "name", <<>>),
      Arg(<<>>, <<"o", "s", ".", "s", "y", "s", "t", "e", "m">>, "attr", <<>>),
      Arg(<<>>, <<"f", "o", "o", "(", ")">>, "call", <<>>) }

Prefixes ==
    { <<>>,
      <<"<", "a", "n", "s", "w", "e", "r", ">">>,
      <<"<", "a", "n", "s", "w", "e", "r", ">", "NL", "{", "t", "h", "i", "n", "k", "}", "CJK", "CJK", "NL", "<", "/", "a", "n", "s", "w", "e", "r", ">", "NL", " ">>,
      <<"BT", "BT", "BT", "p", "y", "t", "h", "o", "n", "NL", "c", "o", "d", "e", "NL", "BT", "BT", "BT", " ">>,
      <<"BT", "BT", "BT", "NL">> }

Suffixes ==
    { <<>>,
      <<"<", "/", "a", "n", "s", "w", "e", "r", ">">>,
      <<"NL", "BT", "BT", "BT">> }

ParseInputs ==
    [kind : {"parse"}, pre : Prefixes, post : Suffixes, name : {W_do, W_finish},
     args : UNION {[1..n -> ArgPool] : n \in 0..MaxArgs}]

ArgText(a) == IF a.key = <<>> THEN a.src ELSE a.key \o <<"=">> \o a.src

RECURSIVE JoinArgs(_, _)
JoinArgs(args, i) ==
    IF i > Len(args) THEN <<>>
    ELSE ArgText(args[i]) \o (IF i < Len(args) THEN <<",", " ">> ELSE <<>>)
         \o JoinArgs(args, i + 1)

CallText(in) == in.name \o <<"(">> \o JoinArgs(in.args, 1) \o <<")">>

InputText(in) == [is_str |-> TRUE, chars |-> in.pre \o CallText(in) \o in.post]

ParseInit ==
    /\ AgentInit(FixedConfig)
    /\ pin \in ParseInputs
    /\ pout = <<>>

\* parse_action(response) on the text of pin
ParseOnce ==
    /\ pin.kind = "parse"
    /\ pout = <<>>
    /\ pout' = <<parse_action(InputText(pin))>>
    /\ UNCHANGED <<agentVars, pin>>

SpecParse == ParseInit /\ [][ParseOnce]_vars

(***************************************************************************)
(* _extract_call_expression as a function of the text after "do(": any     *)
(* sequence of at most MaxScanLen characters drawn from ScanChars          *)
(***************************************************************************)
MaxScanLen == 6

ScanChars == {"(", ")", "DQ", "SQ", "BSL", "a"}

ScanInputs == [kind : {"scan"}, body : UNION {[1..n -> ScanChars] : n \in 0..MaxScanLen}]

ScanText(in) == [is_str |-> TRUE, chars |-> W_do \o <<"(">> \o in.body]

ScanInit ==
    /\ AgentInit(FixedConfig)
    /\ pin \in ScanInputs
    /\ pout = <<>>

\* _extract_call_expression(text, "do") on the text of pin
ScanOnce ==
    /\ pin.kind = "scan"
    /\ pout = <<>>
    /\ pout' = <<extract_call_expression(ScanText(pin), W_do)>>
    /\ UNCHANGED <<agentVars, pin>>

SpecScan == ScanInit /\ [][ScanOnce]_vars

(***************************************************************************)
(* ActionHandler.execute as a function: one action record of ExecActions   *)
(* on a screen of Screens, the device and the callbacks answering as one   *)
(* of ExecEnvs                                                             *)
(***************************************************************************)
\* the device command that raises is the env.dev_fault-th, 0..MaxFault
MaxFault == 4

ExecEnvs == [confirm : {"accept", "reject", "fault"}, dev_fault : 0..MaxFault,
             launch_ok : BOOLEAN, takeover_ok : BOOLEAN]

Screens == {<<ScreenWidth, ScreenHeight>>, <<100, 333>>}

Num(chars) == Val("num", chars, TRUE, TRUE, <<>>)

\* one entry of a record, or none
Field(key, val) == <<[key |-> key, val |-> val]>>
OptField(key, vals) == {<<>>} \cup {Field(key, v) : v \in vals}

\* the record that parse_action builds: the tag first, then the keywords
Tagged(tag, fields) == Field(W_metadata, StrVal(tag)) \o fields
DoAction(name, fields) == Tagged(W_do, Field(W_action, StrVal(name)) \o fields)

W_pay == <<"p", "a", "y">>

\* values of an element, start or end field
Elements ==
    { ListVal(<<Num(<<"0">>), Num(<<"0">>)>>),
      ListVal(<<Num(<<"5", "0", "0">>), Num(<<"5", "0", "0">>)>>),
      ListVal(<<Num(<<"1", "0", "0", "0">>), Num(<<"1", "0", "0", "0">>)>>),
      ListVal(<<Num(<<"5", "7", "0">>), Num(<<"3", "3", "3">>)>>),
      ListVal(<<Num(<<"5">>)>>),
      ListVal(<<>>),
      StrVal(<<"a", "b">>),
      Num(<<"5">>) }

\* values of a duration field
Durations ==
    { StrVal(<<"2", " ">> \o W_seconds),
      StrVal(<<"3">>),
      StrVal(<<"1", ".", "5", " ">> \o W_seconds),
      StrVal(<<"-", "1", " ">> \o W_seconds),
      StrVal(W_nan),
      StrVal(<<"a", "b">>),
      StrVal(<<>>),
      Num(<<"3">>),
      ListVal(<<Num(<<"3">>)>>),
      NoneVal }

ExecActions ==
    { DoAction(n, e \o m) : n \in {W_Tap, W_Double_Tap, W_Long_Press},
                            e \in OptField(W_element, Elements),
                            m \in OptField(W_message, {StrVal(W_pay)}) }
    \cup { DoAction(W_Swipe, a \o b) : a \in OptField(W_start, Elements),
                                       b \in OptField(W_end, Elements) }
    \cup { DoAction(W_Wait, d) : d \in OptField(W_duration, Durations) }
    \cup { DoAction(W_Launch, a) : a \in OptField(W_app, {StrVal(<<"M", "a", "p", "s">>), StrVal(<<>>)}) }
    \cup { DoAction(n, t) : n \in {W_Type, W_Type_Name},
                            t \in OptField(W_text, {StrVal(<<"h", "i">>)}) }
    \cup { DoAction(n, m) : n \in {W_Back, W_Home, W_Take_over, W_Note, W_Call_API, W_Interact,
                                   <<"F", "l", "y">>, <<>>},
                            m \in OptField(W_message, {StrVal(W_pay)}) }
    \cup { Tagged(t, a \o m) : t \in {W_do, W_finish, <<"d", "o", "n", "e">>},
                               a \in OptField(W_action, {StrVal(W_Back), Num(<<"5">>), NoneVal,
                                                         ListVal(<<StrVal(W_Tap)>>)}),
                               m \in OptField(W_message, {StrVal(W_pay), Num(<<"5">>)}) }
    \cup { a \o m : a \in OptField(W_action, {StrVal(W_Back)}),
                    m \in OptField(W_message, {StrVal(W_pay)}) }

ExecInputs == [kind : {"exec"}, action : ExecActions, screen : Screens, env : ExecEnvs]

ExecInit ==
    /\ AgentInit(FixedConfig)
    /\ pin \in ExecInputs
    /\ pout = <<>>

\* self.action_handler.execute(action, screen_width, screen_height)
ExecOnce ==
    /\ pin.kind = "exec"
    /\ pout = <<>>
    /\ pout' = <<execute(pin.action, pin.screen[1], pin.screen[2], pin.env)>>
    /\ UNCHANGED <<agentVars, pin>>

SpecExec == ExecInit /\ [][ExecOnce]_vars

(***************************************************************************)
(* The coordinate conversion through execute: an element [x, y] with x any *)
(* of 0..1000, for each operation that takes coordinates, on each screen   *)
(***************************************************************************)
RECURSIVE DigitsOf(_)
DigitsOf(n) ==
    IF n < 10 THEN <<DigitSeq[n + 1]>>
    ELSE Append(DigitsOf(n \div 10), DigitSeq[(n % 10) + 1])

Point(x, y) == ListVal(<<Num(DigitsOf(x)), Num(DigitsOf(y))>>)

ConvertInputs == [kind : {"convert"}, op : {W_Tap, W_Double_Tap, W_Long_Press, W_Swipe},
                  x : 0..1000, y : {0, 205, 500, 1000}, screen : Screens]

ConvertAction(in) ==
    IF in.op = W_Swipe
    THEN DoAction(W_Swipe, Field(W_start, Point(in.x, in.y)) \o Field(W_end, Point(in.y, in.x)))
    ELSE DoAction(in.op, Field(W_element, Point(in.x, in.y)))

QuietEnv == [confirm |-> "accept", dev_fault |-> 0, launch_ok |-> TRUE, takeover_ok |-> TRUE]

ConvertInit ==
    /\ AgentInit(FixedConfig)
    /\ pin \in ConvertInputs
    /\ pout = <<>>

\* self.action_handler.execute(action, screen_width, screen_height)
ConvertOnce ==
    /\ pin.kind = "convert"
    /\ pout = <<>>
    /\ pout' = <<execute(ConvertAction(pin), pin.screen[1], pin.screen[2], QuietEnv)>>
    /\ UNCHANGED <<agentVars, pin>>

SpecConvert == ConvertInit /\ [][ConvertOnce]_vars

(***************************************************************************)
(* parse_action on whole replies: a text of ReplyBodies between a prefix   *)
(* and a suffix, or a response that is no str                              *)
(***************************************************************************)
\* the texts, by name
ReplyBody(name) ==
    IF name = "back"
         THEN <<"d", "o", "(", "a", "c", "t", "i", "o", "n", "=", "DQ", "B", "a", "c", "k", "DQ", ")">>
    ELSE IF name = "done"
         THEN <<"f", "i", "n", "i", "s", "h", "(", "m", "e", "s", "s", "a", "g", "e", "=", "DQ", "o", "k", "DQ", ")">>
    ELSE IF name = "bare"
         THEN <<"d", "o", "(", ")">>
    ELSE IF name = "positional"
         THEN <<"d", "o", "(", "T", "a", "p", ")">>
    ELSE IF name = "unnamed"
         THEN <<"d", "o", "(", "a", "c", "t", "i", "o", "n", "=", "DQ", "DQ", ")">>
    ELSE IF name = "retagged"
         THEN <<"d", "o", "(", "a", "c", "t", "i", "o", "n", "=", "DQ", "B", "a", "c", "k", "DQ", ",", " ", "_", "m", "e", "t", "a", "d", "a", "t", "a", "=", "DQ", "f", "i", "n", "i", "s", "h", "DQ", ")">>
    ELSE IF name = "undone"
         THEN <<"f", "i", "n", "i", "s", "h", "(", "m", "e", "s", "s", "a", "g", "e", "=", "DQ", "o", "k", "DQ", ",", " ", "_", "m", "e", "t", "a", "d", "a", "t", "a", "=", "DQ", "d", "o", "DQ", ")">>
    ELSE IF name = "odd_tag"
         THEN <<"d", "o", "(", "a", "c", "t", "i", "o", "n", "=", "DQ", "B", "a", "c", "k", "DQ", ",", " ", "_", "m", "e", "t", "a", "d", "a", "t", "a", "=", "DQ", "d", "o", "n", "e", "DQ", ")">>
    ELSE IF name = "open_do"
         THEN <<"d", "o", "(", "a", "c", "t", "i", "o", "n", "=", "DQ", "B", "a", "c", "k", "DQ", " ", "f", "i", "n", "i", "s", "h", "(", "m", "e", "s", "s", "a", "g", "e", "=", "DQ", "o", "k", "DQ", ")">>
    ELSE IF name = "quoted_do"
         THEN <<"f", "i", "n", "i", "s", "h", "(", "m", "e", "s", "s", "a", "g", "e", "=", "DQ", "I", " ", "w", "i", "l", "l", " ", "d", "o", " ", "(", "x", ")", "DQ", ")">>
    ELSE IF name = "braces"
         THEN <<"{", "a", "c", "t", "i", "o", "n", "=", "S", "w", "i", "p", "e", ",", " ", "s", "t", "a", "r", "t", "=", "[", "4", "9", "9", ",", " ", "4", "9", "9", "]", ",", " ", "e", "n", "d", "=", "[", "4", "9", "9", ",", " ", "0", "]", "}">>
    ELSE IF name = "no_value"
         THEN <<"d", "o", "(", "a", "c", "t", "i", "o", "n", "=", ")">>
    ELSE IF name = "open_only"
         THEN <<"d", "o", "(", "a", "c", "t", "i", "o", "n", "=", "DQ", "B", "a", "c", "k", "DQ">>
    ELSE IF name = "unhashable"
         THEN <<"d", "o", "(", "x", "=", "{", "[", "1", "]", "}", ")">>
    ELSE IF name = "name"
         THEN <<"d", "o", "(", "a", "c", "t", "i", "o", "n", "=", "T", "a", "p", ")">>
    ELSE IF name = "both"
         THEN <<"f", "i", "n", "i", "s", "h", "(", "m", "e", "s", "s", "a", "g", "e", "=", "DQ", "o", "k", "DQ", ")", " ", "d", "o", "(", "a", "c", "t", "i", "o", "n", "=", "DQ", "B", "a", "c", "k", "DQ", ")">>
    ELSE IF name = "prose"
         THEN <<"I", " ", "d", "o", " ", "n", "o", "t", " ", "k", "n", "o", "w">>
    ELSE <<"d", "o", "(", "a", "c", "t", "i", "o", "n", "=", "N", "o", "n", "e", ")">>

ReplyBodies == {"back", "done", "bare", "positional", "unnamed", "retagged", "undone", "odd_tag", "open_do", "quoted_do", "braces", "no_value", "open_only", "unhashable", "name", "both", "prose", "none_name"}

ReplyInputs ==
    [kind : {"reply"}, is_str : {TRUE}, pre : Prefixes, body : ReplyBodies, post : Suffixes]
    \cup [kind : {"reply"}, is_str : {FALSE}, pre : {<<>>}, body : {"back", "braces"},
          post : {<<>>}]

\* the response: the text, or a value that is no str (None, a number), which
\* the model tells by is_str alone
ReplyText(in) == [is_str |-> in.is_str, chars |-> in.pre \o ReplyBody(in.body) \o in.post]

ReplyInit ==
    /\ AgentInit(FixedConfig)
    /\ pin \in ReplyInputs
    /\ pout = <<>>

\* parse_action(response) on the response of pin
ReplyOnce ==
    /\ pin.kind = "reply"
    /\ pout = <<>>
    /\ pout' = <<parse_action(ReplyText(pin))>>
    /\ UNCHANGED <<agentVars, pin>>

SpecReply == ReplyInit /\ [][ReplyOnce]_vars

(***************************************************************************)
(* get_screenshot (phone_agent/adb/screenshot.py) as a function of          *)
(* max_retries and of what each capture attempt meets on the device, in    *)
(* order: "image" (the screen was captured and pulled), "secure" (screencap *)
(* answers Status: -1 or Failed), "no_file" (the pull left no file),        *)
(* "timeout" (a subprocess timed out) and "error" (any other exception:    *)
(* adb missing, an unreadable file).                                       *)
(***************************************************************************)
\* TIMING_CONFIG.screenshot.max_retries is drawn from 0..MaxRetries
MaxRetries == 2

AttemptOutcomes == {"image", "secure", "no_file", "timeout", "error"}

\* a Screenshot: blank tells the black image from a captured one
Screenshot(blank, width, height, is_sensitive) ==
    [blank |-> blank, width |-> width, height |-> height, is_sensitive |-> is_sensitive]

create_fallback_screenshot(is_sensitive) ==
    Screenshot(TRUE, ScreenWidth, ScreenHeight, is_sensitive)

\* one capture attempt: what it returns, or the exception it raises
attempt_screenshot(met) ==
    IF met = "timeout" THEN [raises |-> "TimeoutExpired", shot |-> create_fallback_screenshot(FALSE)]
    ELSE IF met = "error" THEN [raises |-> "Exception", shot |-> create_fallback_screenshot(FALSE)]
    ELSE IF met = "secure" THEN [raises |-> "none", shot |-> create_fallback_screenshot(TRUE)]
    ELSE IF met = "no_file" THEN [raises |-> "none", shot |-> create_fallback_screenshot(FALSE)]
    ELSE [raises |-> "none", shot |-> Screenshot(FALSE, ScreenWidth, ScreenHeight, FALSE)]

\* what get_screenshot did: the Screenshot returned, the attempts made and
\* the pauses taken
Captured(shot, attempts, sleeps) ==
    [raised |-> FALSE, shot |-> shot, attempts |-> attempts, sleeps |-> sleeps]

\* a loop that goes on to the next attempt after any exception
RECURSIVE attempts_retrying_all(_, _, _)
attempts_retrying_all(attempt, max_retries, outcomes) ==
    IF attempt > max_retries
    THEN Captured(create_fallback_screenshot(FALSE), attempt, attempt)
    ELSE IF attempt_screenshot(outcomes[attempt + 1]).raises = "none"
    THEN Captured(attempt_screenshot(outcomes[attempt + 1]).shot, attempt + 1, attempt)
    ELSE IF attempt < max_retries
    THEN attempts_retrying_all(attempt + 1, max_retries, outcomes)
    ELSE Captured(create_fallback_screenshot(FALSE), attempt + 1, attempt)

get_screenshot_retrying_all(max_retries, outcomes) ==
    attempts_retrying_all(0, max_retries, outcomes)

\* for attempt in range(max_retries + 1), from attempt on
RECURSIVE attempts_from(_, _, _)
attempts_from(attempt, max_retries, outcomes) ==
    IF attempt > max_retries
    THEN Captured(create_fallback_screenshot(FALSE), attempt, attempt)
    ELSE IF attempt_screenshot(outcomes[attempt + 1]).raises = "none"
    THEN Captured(attempt_screenshot(outcomes[attempt + 1]).shot, attempt + 1, attempt)
    ELSE IF attempt_screenshot(outcomes[attempt + 1]).raises = "TimeoutExpired"
            /\ attempt < max_retries
    THEN attempts_from(attempt + 1, max_retries, outcomes)
    ELSE Captured(create_fallback_screenshot(FALSE), attempt + 1, attempt)

get_screenshot(max_retries, outcomes) == attempts_from(0, max_retries, outcomes)

ShotInputs ==
    UNION {[kind : {"shot"}, max_retries : {m}, outcomes : [1..(m + 1) -> AttemptOutcomes]] :
           m \in 0..MaxRetries}

ShotInit ==
    /\ AgentInit(FixedConfig)
    /\ pin \in ShotInputs
    /\ pout = <<>>

\* get_screenshot(device_id) on the device of pin
ShotOnce ==
    /\ pin.kind = "shot"
    /\ pout = <<>>
    /\ pout' = <<get_screenshot(pin.max_retries, pin.outcomes)>>
    /\ UNCHANGED <<agentVars, pin>>

SpecShot == ShotInit /\ [][ShotOnce]_vars

(***************************************************************************)
(* Properties of the step controller, checked under Spec unless said       *)
(* otherwise                                                               *)
(***************************************************************************)
\* C1: within one step the model is requested at most twice; the second
\* request is made exactly when parse_action failed on the first completion;
\* when the retry completion is unparsable too, or the retry request faults,
\* the action of the step is a finish action and the step returns finished.
C1_RetryBounded ==
    /\ nreq <= 2
    /\ (nreq = 2) <=> (retry # "none")
    /\ retry # "none" => response \in Completions /\ ~Parsed[response].ok
    /\ (pc = "dispatch" /\ ~Parsed[response].ok) => retry # "none"
    /\ (retry = "fault" \/ (retry \in Completions /\ ~Parsed[retry].ok))
          => /\ DictGet(action, W_metadata) = StrVal(W_finish)
             /\ result.valid => result.finished /\ result.action = action

\* a step that returned after two unparsable completions
C1_Witness ==
    /\ retry \in Completions
    /\ ~Parsed[retry].ok
    /\ nreq = 2
    /\ result.valid
    /\ result.finished

\* C2 (as the specification states it): run never raises, and what it
\* returns is a message string.
C2_RunReturnsString ==
    /\ outcome # "run_raised"
    /\ outcome = "run_returned" => ret.k = "str"

\* C3: with max_steps = N > 0 run executes at most N steps and returns
\* "Max steps reached" exactly when N steps ran and the last was not
\* finished; with max_steps <= 0 run returns only from a finished step.
C3_StepCap ==
    mode = "run" =>
       /\ cfg.max_steps > 0 => step_count <= cfg.max_steps
       /\ outcome = "run_returned" =>
             /\ (ret = Text("Max steps reached"))
                   <=> (cfg.max_steps > 0 /\ step_count = cfg.max_steps /\ ~result.finished)
             /\ cfg.max_steps <= 0 => result.finished

\* a run that used up a cap of two steps
C3_Witness ==
    /\ outcome = "run_returned"
    /\ ret = Text("Max steps reached")
    /\ cfg.max_steps = 2
    /\ step_count = 2

\* C4: a step whose model request succeeded returns finished exactly when
\* its action is tagged finish or the dispatch result has should_finish; and
\* once a step of run has returned finished, run returns without another
\* observation, model request or dispatch.
C4_FinishedFlag ==
    /\ [](result.valid /\ result.has_action
             => (result.finished
                   <=> (DictGet(result.action, W_metadata) = StrVal(W_finish)
                          \/ dispatch.res.should_finish)))
    /\ [][(pc = "loop" /\ result.finished)
             => /\ pc' = "idle"
                /\ outcome' = "run_returned"
                /\ UNCHANGED <<context, step_count, nreq, sent, dispatch>>]_vars

\* a run ended in its second step by a do action whose confirmation was declined
C4_Witness ==
    /\ outcome = "run_returned"
    /\ step_count = 2
    /\ result.finished
    /\ DictGet(result.action, W_metadata) = StrVal(W_do)
    /\ dispatch.res.should_finish
    /\ ~dispatch.raised

\* C5: when the first model request of a step faults, the step returns
\* success false and finished true without an action, after one request,
\* no retry and no dispatch, and run returns that step's message.
C5_RequestFaultFatal ==
    response = "fault" =>
       /\ result.valid
       /\ ~result.success
       /\ result.finished
       /\ ~result.has_action
       /\ nreq = 1
       /\ retry = "none"
       /\ ~dispatch.called
       /\ dispatch.cmds = <<>>
       /\ mode = "run" => \/ pc = "loop"
                          \/ /\ pc = "idle"
                             /\ outcome = "run_returned"
                             /\ ret = Text("Model error")
       /\ mode = "step" => pc = "idle" /\ outcome = "step_returned"

\* a run ended by the fault of the request of its second step
C5_Witness ==
    /\ response = "fault"
    /\ outcome = "run_returned"
    /\ step_count = 2

Assistants(ctx) == Len(SelectSeq(ctx, LAMBDA m : m.role = "assistant"))

\* C21: in every step whose first model request succeeded, exactly one
\* assistant message is appended to the context, by the part of the step that
\* follows the parse and calls execute, whatever execute answers and whether
\* or not the retry was used; nothing else in the step adds one.
C21_OneAssistantPerStep ==
    [][/\ pc = "dispatch"
            => /\ dispatch'.called
               /\ Len(context') = Len(context) + 1
               /\ context'[Len(context')].role = "assistant"
               /\ Assistants(context') = Assistants(context) + 1
       /\ pc \in {"observe", "request", "parse", "retry"}
            => Assistants(context') <= Assistants(context)]_vars

\* the messages of a context that carry an image
Images(ctx) == Len(SelectSeq(ctx, LAMBDA m : m.img > 0))

\* C22: at most one message of the context carries an image, in every state
\* and so when a new observation has just been appended: every earlier
\* observation has had its image removed by then.
C22_OneImage == Images(context) <= 1

\* the system messages of a context
Systems(ctx) == Len(SelectSeq(ctx, LAMBDA m : m.role = "system"))

\* C23: in every state, whatever run, step and reset calls were made, the
\* context is empty or it starts with the system message and holds no other
\* system message.
C23_SystemFirst ==
    context # <<>> => context[1] = create_system_message /\ Systems(context) = 1

\* a third step() whose context was trimmed under a budget of one message
C23_Witness ==
    /\ mode = "step"
    /\ outcome = "step_returned"
    /\ step_count = 3
    /\ cfg.max_context_messages = 1
    /\ Len(sent) = 3
    /\ context[1] = create_system_message
    /\ Systems(context) = 1

\* the message a step appended last before its latest model request: the
\* observation of the step, or the corrective prompt once the retry was made
NewestAppended ==
    IF nreq = 2 THEN create_user_message(<<"retry_prompt">>, 0)
    ELSE IF is_first THEN create_user_message(<<"task", "app">>, 1)
    ELSE create_user_message(<<"screen", "app">>, 1)

\* the context handed to the latest model request ends with that message
NewestSent == nreq > 0 => (sent # <<>> /\ sent[Len(sent)] = NewestAppended)

\* C26: for every max_context_messages >= 2 the context handed to the first
\* request of a step ends with the observation appended in that step, and the
\* context handed to the retry request ends with the corrective prompt.
C26_NewestMessageSent == cfg.max_context_messages >= 2 => NewestSent

(***************************************************************************)
(* Properties of _trim_context                                             *)
(***************************************************************************)
\* C7, under SpecAnchors: for max_context_messages >= 2 the system message,
\* the first user message and the first assistant message of any context are
\* in what _trim_context leaves of it; and in the agent, while the context
\* is not cleared, the first user and the first assistant message stay the
\* first of their role (up to the removal of the screenshot).
C7_AnchorsKept ==
    /\ []((pin.kind = "trim" /\ Len(pout) >= 1 /\ pin.max >= 2)
             => \A r \in {"system", "user", "assistant"} :
                   HasRole(pin.ctx, r) => InSeq(FirstOfRole(pin.ctx, r), pout[1]))
    /\ [][(cfg.max_context_messages >= 2 /\ context' # <<>>)
             => \A r \in {"user", "assistant"} :
                   HasRole(context, r)
                      => /\ HasRole(context', r)
                         /\ remove_images_from_message(FirstOfRole(context', r))
                               = remove_images_from_message(FirstOfRole(context, r))]_vars

\* a trim that dropped messages from a context with all three anchors
C7_Witness ==
    /\ pin.kind = "trim"
    /\ Len(pout) >= 1
    /\ pin.max >= 2
    /\ \A r \in {"system", "user", "assistant"} : HasRole(pin.ctx, r)
    /\ Len(pout[1]) < Len(pin.ctx)

\* C8, under SpecTrim: _trim_context applied to what _trim_context left
\* changes nothing, for every context and every maximum.
C8_TrimIdempotent == Len(pout) = 2 => pout[2] = pout[1]

\* a second trim, under a maximum below 2, of a context the first trim
\* shortened to more than the maximum plus one
C8_Witness ==
    /\ Len(pout) = 2
    /\ pin.max < 2
    /\ pout[1] # pin.ctx
    /\ Len(pout[1]) > pin.max + 1

(***************************************************************************)
(* Properties of parse_action, checked under SpecParse                     *)
(***************************************************************************)
\* C9 (as the specification states it): parse_action raises its parse error
\* for every call in which some argument, keyword or positional, is a bare
\* identifier, an attribute access or a nested call.
C9_NonLiteralRejected ==
    (pin.kind = "parse" /\ Len(pout) = 1
       /\ \E i \in 1..Len(pin.args) : pin.args[i].kind \in {"name", "attr", "call"})
    => ~pout[1].ok

\* C10 (as the specification states it): for a text holding one well-formed
\* call (keyword arguments with distinct names and literal values), whatever
\* surrounds it and whatever its strings contain, parse_action returns the
\* call with every string argument as written.
C10_ContentUnchanged ==
    (pin.kind = "parse" /\ Len(pout) = 1
       /\ \A i \in 1..Len(pin.args) :
             /\ pin.args[i].key # <<>>
             /\ pin.args[i].kind \in {"str", "list"}
             /\ \A k \in 1..Len(pin.args) : pin.args[k].key = pin.args[i].key => k = i)
    => /\ pout[1].ok
       /\ DictGet(pout[1].action, W_metadata) = StrVal(pin.name)
       /\ \A i \in 1..Len(pin.args) :
             pin.args[i].kind = "str"
                => /\ DictHas(pout[1].action, pin.args[i].key)
                   /\ DictGet(pout[1].action, pin.args[i].key) = StrVal(pin.args[i].val)

(***************************************************************************)
(* Properties of the forward scan, checked under SpecScan.  The strings of *)
(* a text are told here by the parity of the backslashes before a quote:   *)
(* the string opened at p ends at the first q > p holding the same quote   *)
(* after an even number of backslashes.                                    *)
(***************************************************************************)
\* the backslashes that end at q - 1, none of them before p + 1
BackslashRun(s, p, q) ==
    Cardinality({k \in (p + 1)..(q - 1) : \A m \in k..(q - 1) : s[m] = "BSL"})

EndsString(s, p, q) == s[q] = s[p] /\ BackslashRun(s, p, q) % 2 = 0

\* the closing quote of the string opened at p, or 0
StringEnd(s, p) ==
    IF \E q \in (p + 1)..Len(s) : EndsString(s, p, q)
    THEN CHOOSE q \in (p + 1)..Len(s) :
            EndsString(s, p, q) /\ \A k \in (p + 1)..(q - 1) : ~EndsString(s, p, k)
    ELSE 0

\* the positions from i on that are outside every string
RECURSIVE OutsideFrom(_, _)
OutsideFrom(s, i) ==
    IF i > Len(s) THEN {}
    ELSE IF s[i] \notin Quotes THEN {i} \cup OutsideFrom(s, i + 1)
    ELSE IF StringEnd(s, i) = 0 THEN {}
    ELSE OutsideFrom(s, StringEnd(s, i) + 1)

\* the nesting depth after position j
DepthAt(s, out, j) ==
    Cardinality({k \in out : k <= j /\ s[k] = "("})
       - Cardinality({k \in out : k <= j /\ s[k] = ")"})

\* the first ")" outside every string that brings the depth back to zero, or 0
FirstClose(s, out) ==
    IF \E j \in out : s[j] = ")" /\ DepthAt(s, out, j) = 0
    THEN CHOOSE j \in out :
            /\ s[j] = ")" /\ DepthAt(s, out, j) = 0
            /\ \A k \in out : (s[k] = ")" /\ DepthAt(s, out, k) = 0) => j <= k
    ELSE 0

\* C11: the extractor returns the text from the call name through the first
\* ")" that is outside every quoted string and brings the nesting depth back
\* to zero, parentheses inside strings (after escaped quotes too) not
\* counting; when the text ends before that, the extraction fails.
C11_ScanToFirstClose ==
    (pin.kind = "scan" /\ Len(pout) = 1)
    => IF FirstClose(ScanText(pin).chars, OutsideFrom(ScanText(pin).chars, 1)) = 0
       THEN ~pout[1].found
       ELSE /\ pout[1].found
            /\ pout[1].expr =
                  SubSeq(ScanText(pin).chars, 1,
                         FirstClose(ScanText(pin).chars, OutsideFrom(ScanText(pin).chars, 1)))

\* a call extracted whole past a string that holds an escaped quote and a ")"
C11_Witness ==
    /\ pin.kind = "scan"
    /\ Len(pout) = 1
    /\ pin.body = <<"DQ", "BSL", "DQ", ")", "DQ", ")">>
    /\ pout[1].found
    /\ pout[1].expr = ScanText(pin).chars

(***************************************************************************)
(* Properties of the dispatcher, checked under SpecExec unless said        *)
(* otherwise                                                               *)
(***************************************************************************)
TapClass == {W_Tap, W_Double_Tap, W_Long_Press}
TapOps == {"tap", "double_tap", "long_press"}

\* the action of pin has been executed, it is tagged do and names one of names
Executed(names) ==
    /\ pin.kind = "exec"
    /\ pout # <<>>
    /\ DictGet(pin.action, W_metadata) = StrVal(W_do)
    /\ DictGet(pin.action, W_action).k = "str"
    /\ DictGet(pin.action, W_action).v \in names

\* every tap command of cmds comes after a confirmation asked with message
ConfirmedFirst(cmds, message) ==
    \A i \in 1..Len(cmds) :
        cmds[i].op \in TapOps => \E j \in 1..(i - 1) : cmds[j] = Cmd("confirm", <<message>>)

\* what the sensitive-action gate asks of an executed action that names one
\* of names and carries a message
Gated(names) ==
    (Executed(names) /\ DictHas(pin.action, W_message)) =>
        /\ ConfirmedFirst(pout[1].cmds, DictGet(pin.action, W_message))
        /\ (pin.env.confirm = "reject" /\ Convertible(DictGet(pin.action, W_element))) =>
               /\ \A i \in 1..Len(pout[1].cmds) : pout[1].cmds[i].op \notin TapOps
               /\ ~pout[1].raised
               /\ ~pout[1].res.success
               /\ pout[1].res.should_finish

\* C12: for a tap-class action (Tap, Double Tap, Long Press) whose record
\* carries a message, the confirmation callback is invoked with that message
\* before any tap command is issued; when the callback rejects, no tap
\* command is issued and the result is success = false, should_finish = true.
C12_ConfirmBeforeTap == Gated(TapClass)

\* the handler of the executed action raised: a device command, a callback
\* or the reading of a field value faulted
HandlerFaulted ==
    /\ Executed(HandlerNames)
    /\ run_handler(DictGet(pin.action, W_action).v, pin.action,
                   pin.screen[1], pin.screen[2], pin.env).raised

Contained(o) ==
    /\ ~o.raised
    /\ o.res = Result(FALSE, FALSE, Text("Action failed"))

\* C13 as stated: a fault raised inside an operation handler comes back as
\* success = false, should_finish = false with the fault as message, and
\* execute itself never raises.
C13_ExecuteNeverRaises ==
    (pin.kind = "exec" /\ pout # <<>>) =>
        /\ ~pout[1].raised
        /\ HandlerFaulted => Contained(pout[1])

\* What does hold of execute: a fault raised inside an operation handler
\* comes back as success = false, should_finish = false with the fault as
\* message, and execute raises only for a record tagged do whose action name
\* is unhashable, from the registry lookup that precedes the handler.
HandlerFaultsContained ==
    (pin.kind = "exec" /\ pout # <<>>) =>
        /\ HandlerFaulted => Contained(pout[1])
        /\ pout[1].raised =>
               /\ DictGet(pin.action, W_metadata) = StrVal(W_do)
               /\ ~Hashable(DictGet(pin.action, W_action))

\* a result reached with no device command and no callback
Quiet(o, success, should_finish) ==
    /\ ~o.raised
    /\ o.cmds = <<>>
    /\ o.res.success = success
    /\ o.res.should_finish = should_finish

\* C14: execute classifies the record before any handler runs, with no
\* device command and no callback: the tag finish gives success = true,
\* should_finish = true and the message of the record; the tag do with an
\* action name that the registry does not hold gives success = false,
\* should_finish = false; any other tag gives success = false,
\* should_finish = true.
C14_Classified ==
    (pin.kind = "exec" /\ pout # <<>>) =>
        LET tag == DictGet(pin.action, W_metadata)
        IN  /\ tag = StrVal(W_finish) =>
                   /\ Quiet(pout[1], TRUE, TRUE)
                   /\ pout[1].res.message = DictGet(pin.action, W_message)
            /\ (tag = StrVal(W_do) /\ ~get_handler(DictGet(pin.action, W_action))) =>
                   Quiet(pout[1], FALSE, FALSE)
            /\ tag \notin {StrVal(W_do), StrVal(W_finish)} =>
                   Quiet(pout[1], FALSE, TRUE)

\* the duration of the executed Wait: the field, or the default "1 seconds"
WaitDuration ==
    IF DictHas(pin.action, W_duration) THEN DictGet(pin.action, W_duration)
    ELSE StrVal(<<"1", " ">> \o W_seconds)

\* the duration is a text whose number float() reads, with its milliseconds
ParsedWait ==
    IF WaitDuration.k = "str"
    THEN FloatOf(Strip(RemoveWord(WaitDuration.v, W_seconds, 1)))
    ELSE [kind |-> "bad", ms |-> 0]

\* C16: a Wait never raises, whatever value its duration holds (a text with
\* or without a number, a number, a list, None, or no field): the handler
\* blocks once, for the seconds of a parsable text and for 1.0 seconds
\* otherwise, and the result is success = true, should_finish = false.
C16_WaitNeverRaises ==
    Executed({W_Wait}) =>
        /\ ~run_handler(W_Wait, pin.action, pin.screen[1], pin.screen[2], pin.env).raised
        /\ ~pout[1].raised
        /\ pout[1].res.success
        /\ ~pout[1].res.should_finish
        /\ Len(pout[1].cmds) = 1
        /\ pout[1].cmds[1].op = "sleep"
        /\ ParsedWait.kind = "bad" => pout[1].cmds[1].args = <<1000>>
        /\ ParsedWait.kind = "ok" => pout[1].cmds[1].args = <<ParsedWait.ms>>

\* the device commands of a Type dispatch, in the order the claim gives them
TypeOrder == <<"detect_and_set_adb_keyboard", "clear_text", "type_text", "restore_keyboard">>

\* the device commands among cmds, without the pauses
DeviceOps(cmds) ==
    LET dev == SelectSeq(cmds, LAMBDA c : c.op # "sleep")
    IN  [i \in 1..Len(dev) |-> dev[i].op]

\* C24: the device commands of a Type (or Type_Name) dispatch are a prefix
\* of switch input method, clear field, inject text, restore input method,
\* each at most once; and when the switch command returned, the restore
\* command has been issued by the time execute returns, also when the clear
\* or the inject command raised.
C24_RestoreAfterSwitch ==
    Executed({W_Type, W_Type_Name}) =>
        /\ ~pout[1].raised
        /\ \E n \in 0..4 : DeviceOps(pout[1].cmds) = SubSeq(TypeOrder, 1, n)
        /\ pin.env.dev_fault # 1 =>
               \E i \in 1..Len(pout[1].cmds) : pout[1].cmds[i].op = "restore_keyboard"

(***************************************************************************)
(* Properties of the coordinate conversion, checked under SpecConvert      *)
(***************************************************************************)
\* floor(n / 1000 * d) in exact arithmetic
Floor(n, d) == (n * d) \div 1000

\* C15: for every normalized coordinate n of 0..1000 the pixel coordinate
\* that Tap, Double Tap, Long Press and both endpoints of Swipe hand to the
\* device is floor(n / 1000 * d), each axis by its own screen dimension.
C15_PixelIsFloor ==
    (pin.kind = "convert" /\ pout # <<>>) =>
        /\ Len(pout[1].cmds) = 1
        /\ pout[1].cmds[1].args =
               IF pin.op = W_Swipe
               THEN << Floor(pin.x, pin.screen[1]), Floor(pin.y, pin.screen[2]),
                       Floor(pin.y, pin.screen[1]), Floor(pin.x, pin.screen[2]) >>
               ELSE << Floor(pin.x, pin.screen[1]), Floor(pin.y, pin.screen[2]) >>

(***************************************************************************)
(* Properties of _trim_context as a function, checked under SpecTrim       *)
(***************************************************************************)
\* a context as the step controller builds it: the system message first,
\* and no other system message
WellFormed(ctx) ==
    /\ Len(ctx) >= 1
    /\ ctx[1].role = "system"
    /\ \A i \in 2..Len(ctx) : ctx[i].role # "system"

\* the position of the first message of role r, 0 when there is none
FirstAt(ctx, r) ==
    IF HasRole(ctx, r)
    THEN CHOOSE i \in 1..Len(ctx) : ctx[i].role = r /\ \A k \in 1..(i - 1) : ctx[k].role # r
    ELSE 0

\* the messages of ctx from position i on whose position is not in drop
RECURSIVE Without(_, _, _)
Without(ctx, drop, i) ==
    IF i > Len(ctx) THEN <<>>
    ELSE (IF i \in drop THEN <<>> ELSE <<ctx[i]>>) \o Without(ctx, drop, i + 1)

\* the reference: anchors are positions (the system message, the first user
\* message, the first assistant message), every other position is a
\* non-anchor message whatever its content
RefTrim(ctx, max) ==
    IF Len(ctx) <= max + 1 THEN ctx
    ELSE LET u == FirstAt(ctx, "user")
             a == FirstAt(ctx, "assistant")
             kept == {u, a} \ {0}
             availableSlots == Max2(max - Cardinality(kept), 0)
         IN  <<ctx[1]>>
             \o (IF u > 0 THEN <<ctx[u]>> ELSE <<>>)
             \o (IF a > 0 THEN <<ctx[a]>> ELSE <<>>)
             \o (IF availableSlots > 0
                 THEN LastN(Without(ctx, kept \cup {1}, 1), availableSlots)
                 ELSE <<>>)

\* C17: _trim_context equals the reference: unchanged up to
\* max_context_messages + 1 messages, else the system message, the first
\* user and the first assistant message, and the last availableSlots of the
\* other messages in their order, also when one of those other messages has
\* the role and content of an anchor.
C17_TrimIsReference ==
    (pin.kind = "trim" /\ Len(pout) >= 1 /\ WellFormed(pin.ctx)) =>
        pout[1] = RefTrim(pin.ctx, pin.max)

(***************************************************************************)
(* Properties of parse_action on whole replies, checked under SpecReply    *)
(***************************************************************************)
\* the reply of pin is a text and has been parsed
Replied == pin.kind = "reply" /\ pout # <<>> /\ pin.is_str

\* the sanitized text of pin holds the call name followed by "("
Holds(name) == FindCall(Sanitize(ReplyText(pin).chars), name) > 0

ReplyTag == DictGet(pout[1].action, W_metadata)

\* C18: the fallback name finish is searched only when the sanitized text
\* holds no do followed by "(": when there is one, parse_action returns a
\* record tagged do or fails, never a record tagged finish, and a record is
\* tagged finish only when it was built from a finish(...) call.
C18_FinishOnlyWithoutDo ==
    (Replied /\ pout[1].ok) =>
        /\ Holds(W_do) => ReplyTag = StrVal(W_do)
        /\ ReplyTag = StrVal(W_finish) => (Holds(W_finish) /\ ~Holds(W_do))

\* C19: every record that parse_action returns is tagged do or finish, and
\* a record tagged do carries a non-empty action name.
C19_TagAndName ==
    (pin.kind = "reply" /\ pout # <<>> /\ pout[1].ok) =>
        /\ ReplyTag \in {StrVal(W_do), StrVal(W_finish)}
        /\ ReplyTag = StrVal(W_do) =>
               /\ DictHas(pout[1].action, W_action)
               /\ DictGet(pout[1].action, W_action).k = "str"
               /\ DictGet(pout[1].action, W_action).v # <<>>

\* C20: parse_action fails on a response that holds no do(...) and no
\* finish(...) call (brace-style text, with or without wrapper tags) and on
\* a response that is no str, and every failure of parse_action (no call, an
\* unbalanced call, invalid syntax, a non-literal argument, an unhashable set
\* element) leaves it as ValueError, the exception the step controller
\* answers with its retry.
C20_FailuresAreValueError ==
    (pin.kind = "reply" /\ pout # <<>>) =>
        /\ (~pin.is_str \/ (~Holds(W_do) /\ ~Holds(W_finish))) => ~pout[1].ok
        /\ ~pout[1].ok => pout[1].err = "ValueError"
        /\ pout[1].ok => pout[1].err = "none"

\* the brace-style text inside wrapper tags fails with ValueError
C20_Witness ==
    /\ Replied
    /\ pin.body = "braces"
    /\ pin.pre = <<"<", "a", "n", "s", "w", "e", "r", ">">>
    /\ pin.post = <<"<", "/", "a", "n", "s", "w", "e", "r", ">">>
    /\ ~pout[1].ok
    /\ pout[1].err = "ValueError"

(***************************************************************************)
(* Properties of get_screenshot, checked under SpecShot                    *)
(***************************************************************************)
\* get_screenshot has returned for the device of pin
Shot == pin.kind = "shot" /\ pout # <<>>

\* what the last attempt made met on the device
LastMet == pin.outcomes[pout[1].attempts]

====
